---- MODULE Spec2Model ----
(***************************************************************************)
(* A model of the SyncTools synchronisation core (src-tauri/src/core):     *)
(* the comparator (comparator.rs), the quick hash and the file-state store *)
(* (file_state.rs) and the engine run (engine.rs: scan, compare, hash      *)
(* skip, bounded parallel execution with retry, report).                   *)
(*                                                                         *)
(* Two specifications:                                                     *)
(*   SpecCompare  compare_trees as a pure function of two trees, a mode,   *)
(*                a CompareConfig and the HashSet iteration order;         *)
(*   Spec         one engine run over two storages.                        *)
(***************************************************************************)
EXTENDS Integers, Sequences, FiniteSets, TLC

(***************************************************************************)
(* Values                                                                  *)
(***************************************************************************)

\* Option<T>: None is the empty sequence, Some(x) the sequence holding x
None == <<>>
Some(x) == <<x>>

\* Paths are byte strings; Rust compares String bytewise (lexicographic).
\* "a", "a/b", "b"
PathA == <<97>>
PathAB == <<97, 47, 98>>
PathB == <<98>>
Paths == {PathA, PathAB, PathB}

\* a <= b for byte strings, as str::cmp orders them
PathLeq(a, b) ==
    \E k \in 0..Len(a) :
        /\ k <= Len(b)
        /\ \A i \in 1..k : a[i] = b[i]
        /\ \/ k = Len(a)
           \/ (k < Len(b) /\ a[k + 1] < b[k + 1])

SyncModes == {"Bidirectional", "Mirror", "Backup"}

\* storage::FileInfo without its path (the path is the tree's key)
FileInfo(size, mtime, dir, sum) ==
    [size |-> size, modified_time |-> mtime, is_dir |-> dir, checksum |-> sum]

\* bound: the number of paths the two trees of one comparison hold together
MaxPaths == 2

\* CompareConfig::default().time_tolerance_seconds
TIME_TOLERANCE_SECONDS == 2

CompareConfigOf(use_checksum, ignore_mtime, size_only) ==
    [time_tolerance_seconds |-> TIME_TOLERANCE_SECONDS,
     use_checksum |-> use_checksum,
     ignore_mtime |-> ignore_mtime,
     size_only_for_same_size |-> size_only]

\* a bug: the default without size_only_for_same_size, so that files of the
\* same size are compared by their times
DefaultCompareConfig_TimeCompared == CompareConfigOf(FALSE, FALSE, FALSE)

\* impl Default for CompareConfig
DefaultCompareConfig == CompareConfigOf(FALSE, FALSE, TRUE)

\* FileComparator::new(use_checksum)
FileComparatorNew(use_checksum) ==
    [DefaultCompareConfig EXCEPT !.use_checksum = use_checksum]

\* impl Default for FileComparator: Self::new(false)
FileComparatorDefault == FileComparatorNew(FALSE)

CompareConfigs ==
    {CompareConfigOf(c, i, s) : c \in BOOLEAN, i \in BOOLEAN, s \in BOOLEAN}

(***************************************************************************)
(* comparator.rs                                                           *)
(***************************************************************************)

Abs(x) == IF x < 0 THEN -x ELSE x

\* a bug compare_files could have: sizes looked at before the checksums
compare_files_SizeFirst(config, source, dest) ==
    IF source.size # dest.size THEN "Different"
    ELSE IF config.size_only_for_same_size THEN "Equal"
    ELSE IF config.use_checksum /\ source.checksum # None /\ dest.checksum # None
    THEN (IF source.checksum = dest.checksum THEN "Equal" ELSE "Different")
    ELSE IF config.ignore_mtime THEN "ProbablyEqual"
    ELSE IF Abs(source.modified_time - dest.modified_time)
               <= config.time_tolerance_seconds THEN "Equal"
    ELSE IF source.modified_time > dest.modified_time THEN "SourceNewer"
    ELSE "DestNewer"

\* FileComparator::compare_files
compare_files(config, source, dest) ==
    IF config.use_checksum /\ source.checksum # None /\ dest.checksum # None
    THEN (IF source.checksum = dest.checksum THEN "Equal" ELSE "Different")
    ELSE IF source.size # dest.size THEN "Different"
    ELSE IF config.size_only_for_same_size THEN "Equal"
    ELSE IF config.ignore_mtime THEN "ProbablyEqual"
    ELSE IF Abs(source.modified_time - dest.modified_time)
               <= config.time_tolerance_seconds THEN "Equal"
    ELSE IF source.modified_time > dest.modified_time THEN "SourceNewer"
    ELSE "DestNewer"

\* SyncAction variants
Copy(path, size, reverse) ==
    [type |-> "Copy", source_path |-> path, dest_path |-> path,
     size |-> size, reverse |-> reverse]
Delete(path, from_dest) ==
    [type |-> "Delete", path |-> path, from_dest |-> from_dest]
Skip(path) ==
    [type |-> "Skip", path |-> path]
Conflict(path, src, dst, kind) ==
    [type |-> "Conflict", path |-> path, source_info |-> src,
     dest_info |-> dst, conflict_type |-> kind]

\* the path the sort closure of compare_trees reads from an action
ActionPath(a) == IF a.type = "Copy" THEN a.source_path ELSE a.path

\* a bug: the Mirror arm of a dest-only file copied into the Backup arm
compare_dest_only_BackupDeletes(path, dst, mode) ==
    IF mode = "Bidirectional" THEN Copy(path, dst.size, TRUE)
    ELSE Delete(path, TRUE)

\* compare_trees, the arm (None, Some(dst)) for a file
compare_dest_only(path, dst, mode) ==
    CASE mode = "Mirror" -> Delete(path, TRUE)
      [] mode = "Bidirectional" -> Copy(path, dst.size, TRUE)
      [] mode = "Backup" -> Skip(path)

\* a bug: the Bidirectional arms used in every mode
compare_both_AlwaysBidirectional(config, path, src, dst, mode) ==
    LET rel == compare_files(config, src, dst) IN
    CASE rel \in {"Equal", "ProbablyEqual"} -> Skip(path)
      [] rel = "SourceNewer" -> Copy(path, src.size, FALSE)
      [] rel = "DestNewer" -> Copy(path, dst.size, TRUE)
      [] rel = "Different" -> Conflict(path, src, dst, "BothModified")

\* compare_trees, the arm (Some(src), Some(dst)) once both are not directories
compare_both(config, path, src, dst, mode) ==
    LET rel == compare_files(config, src, dst) IN
    CASE rel \in {"Equal", "ProbablyEqual"} -> Skip(path)
      [] rel = "SourceNewer" -> Copy(path, src.size, FALSE)
      [] rel = "DestNewer" ->
           IF mode = "Bidirectional" THEN Copy(path, dst.size, TRUE)
           ELSE Copy(path, src.size, FALSE)
      [] rel = "Different" ->
           IF mode = "Bidirectional"
           THEN Conflict(path, src, dst, "BothModified")
           ELSE Copy(path, src.size, FALSE)

\* a bug: a one-sided directory is not skipped
compare_entry_KeepsOneSidedDirs(config, source, dest, mode, path) ==
    IF path \in DOMAIN source /\ path \in DOMAIN dest
    THEN IF source[path].is_dir /\ dest[path].is_dir THEN <<>>
         ELSE <<compare_both(config, path, source[path], dest[path], mode)>>
    ELSE IF path \in DOMAIN source
    THEN <<Copy(path, source[path].size, FALSE)>>
    ELSE <<compare_dest_only(path, dest[path], mode)>>

\* compare_trees, the body of `for path in all_paths`: the actions pushed for
\* one path (none where the code says `continue`)
compare_entry(config, source, dest, mode, path) ==
    IF path \in DOMAIN source /\ path \in DOMAIN dest
    THEN IF source[path].is_dir /\ dest[path].is_dir THEN <<>>
         ELSE <<compare_both(config, path, source[path], dest[path], mode)>>
    ELSE IF path \in DOMAIN source
    THEN IF source[path].is_dir THEN <<>>
         ELSE <<Copy(path, source[path].size, FALSE)>>
    ELSE IF dest[path].is_dir THEN <<>>
         ELSE <<compare_dest_only(path, dest[path], mode)>>

\* a bug: Skip given the smallest order
action_order_SkipFirst(a) ==
    CASE a.type = "Copy" -> 1
      [] a.type = "Delete" -> 3
      [] a.type = "Skip" -> 0
      [] a.type = "Conflict" -> 2

\* compare_trees, order_a / order_b of the sort closure
action_order(a) ==
    CASE a.type = "Copy" -> 0
      [] a.type = "Delete" -> 2
      [] a.type = "Skip" -> 3
      [] a.type = "Conflict" -> 1

\* a bug: the sort closure without its then_with(path) part
sort_less_KindOnly(a, b) ==
    action_order(a) < action_order(b)

\* compare_trees, the sort closure: cmp(a, b) = Less
sort_less(a, b) ==
    \/ action_order(a) < action_order(b)
    \/ /\ action_order(a) = action_order(b)
       /\ ActionPath(a) # ActionPath(b)
       /\ PathLeq(ActionPath(a), ActionPath(b))

\* Vec::sort_by is a stable sort: an element goes after every element that
\* is not greater than it.  Insert x into the sorted s.
RECURSIVE StableInsert(_, _)
StableInsert(s, x) ==
    IF s = <<>> THEN <<x>>
    ELSE IF sort_less(x, s[Len(s)])
    THEN Append(StableInsert(SubSeq(s, 1, Len(s) - 1), x), s[Len(s)])
    ELSE Append(s, x)

RECURSIVE sort_by(_)
sort_by(s) ==
    IF s = <<>> THEN <<>>
    ELSE StableInsert(sort_by(SubSeq(s, 1, Len(s) - 1)), s[Len(s)])

\* the `for path in all_paths` loop over the iteration order of the HashSet
RECURSIVE collect_actions(_, _, _, _, _)
collect_actions(config, source, dest, mode, order) ==
    IF order = <<>> THEN <<>>
    ELSE compare_entry(config, source, dest, mode, order[1])
         \o collect_actions(config, source, dest, mode, Tail(order))

\* FileComparator::compare_trees; `order` is the order in which the HashSet
\* all_paths yields the paths
compare_trees(config, source, dest, mode, order) ==
    sort_by(collect_actions(config, source, dest, mode, order))

\* the orders a HashSet of these paths can be iterated in
IterationOrders(S) ==
    {o \in [1..Cardinality(S) -> S] : \A i, j \in DOMAIN o : i # j => o[i] # o[j]}

AllPaths(source, dest) == DOMAIN source \cup DOMAIN dest

(***************************************************************************)
(* file_state.rs: the quick hash                                           *)
(***************************************************************************)

\* blake3 is modelled as collision free: a digest is its input, tagged with
\* the number of hex characters kept.  Digests of different lengths are
\* different strings.
Blake3Hex(input, hex_len) == [hex_len |-> hex_len, input |-> input]

\* calculate_hash: hash.to_hex()[..32]
calculate_hash(data) == Blake3Hex(<<data>>, 32)

\* calculate_quick_hash: `len <= 65536`, scaled to the model's file sizes
QUICK_HASH_FULL_LIMIT == 1
\* calculate_quick_hash: chunk_size = 16384, scaled
QUICK_HASH_CHUNK == 1

\* data[a..b) of a Rust slice
Slice(data, a, b) == SubSeq(data, a + 1, b)

\* calculate_quick_hash
calculate_quick_hash(data) ==
    LET len == Len(data)
        c == QUICK_HASH_CHUNK
    IN  IF len <= QUICK_HASH_FULL_LIMIT THEN calculate_hash(data)
        ELSE Blake3Hex(<<Slice(data, 0, c),
                         Slice(data, len \div 2 - c \div 2, len \div 2 + c \div 2),
                         Slice(data, len - c, len),
                         len>>, 32)

\* execute_action, streamed copy: hasher.finalize().to_hex().to_string() over
\* every chunk read, the whole 64 hex characters
stream_hash(data) == Blake3Hex(<<data>>, 64)

(***************************************************************************)
(* engine.rs: configuration                                                *)
(***************************************************************************)

\* DEFAULT_STREAM_THRESHOLD (128 MB), scaled to the model's file sizes
DEFAULT_STREAM_THRESHOLD == 1
\* DEFAULT_CHUNK_SIZE (8 MB), scaled
DEFAULT_CHUNK_SIZE == 1

\* DEFAULT_RETRY_BASE_DELAY_MS and RETRY_BACKOFF_BASE of engine.rs
DEFAULT_RETRY_BASE_DELAY_MS == 2000
RETRY_BACKOFF_BASE == 2
\* bound: SyncConfig.max_retries (DEFAULT_MAX_RETRIES is 5)
max_retries == 1
\* bound: the largest max_concurrent_transfers a run is started with
\* (start_sync clamps the value to 1..128)
MaxConcurrent == 2

\* the paths of the two storages of the job
StorePaths == {PathA, PathB}

\* file contents: one byte is a file below the stream threshold, two bytes
\* a file above it
SmallData == <<1>>
OtherSmallData == <<2>>
LargeData == <<1, 2>>
OtherLargeData == <<2, 1>>
SourceData == {SmallData, LargeData}
DestData == {OtherSmallData, OtherLargeData}

(***************************************************************************)
(* State                                                                   *)
(***************************************************************************)
VARIABLES
    syncMode,          \* job.syncMode
    compare_config,    \* FileComparator.config
    source_tree,       \* path -> FileInfo, the scan of the source
    dest_tree,         \* path -> FileInfo, the scan of the destination
    compared,          \* the return value of compare_trees
    actions,           \* run_sync's `actions` after the hash-skip rewrite
    pc,                \* where run_sync (or the comparison) stands
    source_store,      \* path -> bytes: the files of the source storage
    dest_store,        \* path -> bytes: the files of the destination storage
    file_states,       \* path -> row of table file_states for this job
    file_states_start, \* file_states when the run began
    max_concurrent_transfers, \* SyncConfig.max_concurrent_transfers
    cancelled,         \* SyncEngine.cancelled
    executable_actions,\* execute_sync_parallel: the non-Skip actions
    next_action,       \* index of the action the spawn loop is at
    tasks,             \* index -> the spawned task of that action
    permits,           \* free permits of the semaphore
    stats,             \* TransferStats
    errors,            \* the lock-protected error list
    synced_states,     \* the lock-protected Vec<FileState>
    report,            \* the SyncReport run_sync returned, or None
    history,           \* the rows of table sync_logs for this job
    temp_files,        \* number of synctools_*.tmp files in the temp directory
    conflict_resolutions, \* SyncConfig.conflict_resolutions: path -> choice
    conflicts,         \* the records of the conflict registry
    cache_files,       \* "source"/"dest" -> the CacheEntry file of the job
    tree_origin,       \* "source"/"dest" -> where the side's tree came from
    clock,             \* FileListCache::now, in seconds
    storage_type,      \* "source"/"dest" -> StorageConfig.typ
    config_json,       \* "source"/"dest" -> the serialized StorageConfig
    remote_cache_ttl,  \* SyncConfig.remote_cache_ttl / CacheConfig.remote_ttl
    storage_errors,    \* the errors the storages answer a failed operation with
    force_refresh,     \* analyze_job's force_refresh argument
    progress_channel,  \* the updates held by the mpsc channel of start_sync
    progress_sent,     \* the status of every update sent so far
    progress_handle,   \* the progress ticker of execute_sync_parallel
    db,                \* synctools.db: table name -> the set of its rows
    cache_dir,         \* the <job>_<side>.cache files of the cache directory
    transfer_cache,    \* TransferManager.cache: id -> TransferState
    created_dirs,      \* WebDavStorage.created_dirs
    writers,           \* the calls of ensure_parent_dirs under way
    cancel_signals,    \* AppState.cancel_signals: the job's entry
    sync_runs,         \* the background tasks spawned by start_sync
    local_files,       \* the files under a LocalStorage's base_path
    local_writes,      \* the calls of LocalStorage::write under way
    stream_copy,       \* phase 1 of a streamed copy: the range-read loop
    config_files,      \* the files of the configuration directory
    config_saves       \* the calls of save_config_section under way

vars == <<syncMode, compare_config, source_tree, dest_tree, compared, actions,
          pc, source_store, dest_store, file_states, file_states_start,
          max_concurrent_transfers, cancelled, executable_actions,
          next_action, tasks, permits, stats, errors, synced_states, report,
          history, temp_files, conflict_resolutions, conflicts, cache_files,
          tree_origin, clock, storage_type, config_json, remote_cache_ttl, storage_errors,
          force_refresh, progress_channel, progress_sent, progress_handle,
          db, cache_dir, transfer_cache, created_dirs, writers,
          cancel_signals, sync_runs, local_files, local_writes, stream_copy,
          config_files, config_saves>>

cmpVars == <<syncMode, compare_config, source_tree, dest_tree>>
\* the progress channel and the ticker
progressVars == <<progress_channel, progress_sent, progress_handle>>
\* the parts of the application that have a specification of their own
\* the database, the cache directory and the TransferManager
storeVars == <<db, cache_dir, transfer_cache>>
\* the WebDAV backend's directory cache
webdavVars == <<created_dirs, writers>>
\* the command layer's cancel signals and background tasks
commandVars == <<cancel_signals, sync_runs>>
\* a LocalStorage, a streamed copy's read loop and the configuration directory
fileVars == <<local_files, local_writes, stream_copy, config_files,
              config_saves>>
componentVars == <<progressVars, storeVars, webdavVars, commandVars, fileVars>>
\* what no step of a run changes: the job and the engine's configuration
jobVars == <<max_concurrent_transfers, conflict_resolutions, conflicts, clock,
             storage_type, config_json, remote_cache_ttl, storage_errors, force_refresh,
             componentVars>>
cacheVars == <<cache_files, tree_origin>>
envVars == <<source_store, dest_store, file_states, file_states_start,
             jobVars, temp_files>>
execVars == <<executable_actions, next_action, tasks, permits, stats, errors,
              synced_states>>

\* partial functions from a set of paths
PartialFns(P, V) == UNION {[D -> V] : D \in SUBSET P}

ZeroStats == [files_completed |-> 0, files_failed |-> 0, bytes_transferred |-> 0]

\* the two storage_type keys of a cache file name
Sides == {"source", "dest"}

\* no cache file for either side
NoCache == [k \in Sides |-> None]

\* the tables of a database the migrations have just created
EmptyDb == [sync_jobs |-> {}, file_states |-> {}, transfer_states |-> {},
            sync_logs |-> {}, conflicts |-> {}]

\* no progress ticker was spawned
NoTicker == [st |-> "none", seen |-> 0, failed |-> 0, ticks |-> 0,
             aborted |-> FALSE]

\* bound: the concurrent write calls on one WebDavStorage
MaxWriters == 2
WriterIds == 1..MaxWriters

\* WebDavStorage::new: created_dirs holds "/" only
RootOnly == {<<>>}

\* no write call is under way
NoWriters == [w \in WriterIds |-> [st |-> "idle", dirs_to_create |-> <<>>]]

\* bound: the calls of start_sync for the job
MaxRuns == 2
RunIds == 1..MaxRuns

\* start_sync was not called
\* st: where the background task stands; cancelled: its engine's flag;
\* signal: what became of the sender of its one-shot channel; listener: the
\* task that awaits the receiver; status: the status of the report.
\* flag_set_by and fired_at record why and when the listener called
\* engine.cancel(), cancel_ok_at when cancel_sync took the run's sender
NoSyncRun == [st |-> "none", cancelled |-> FALSE, signal |-> "none",
              listener |-> "none", flag_set_by |-> "none",
              fired_at |-> "none", cancel_ok_at |-> "none",
              status |-> "none"]
NoSyncRuns == [r \in RunIds |-> NoSyncRun]

\* bound: the concurrent calls of LocalStorage::write
MaxWrites == 2
WriteIds == 1..MaxWrites

\* a relative path of the destination tree: <<file stem, extension>>
TmpOfB == <<"b", "tmp">>

\* the destination tree before the writes: one file of the user, b.tmp
LocalDirAtRest == [p \in {TmpOfB} |-> 3]

\* no write call is under way
NoLocalWrites == [w \in WriteIds |->
                     [st |-> "idle", path |-> <<>>, data |-> 0,
                      result |-> "none"]]

\* no streamed copy is under way
NoStream == [st |-> "idle", total_size |-> 0, chunk_size |-> 1,
             source_len |-> 0, offset |-> 0, reads |-> 0]

\* the sections of config.json
ConfigSections == {"cache", "transfer", "log"}

\* the configuration directory before the saves: config.json with every
\* section at its first value
ConfigDirAtRest == [f \in {"config.json"} |-> [k \in ConfigSections |-> 0]]

\* the two saves the commands make: the cache section and the transfer
\* section
SavedSections == {"cache", "transfer"}

\* no save is under way
NoConfigSaves == [k \in SavedSections |->
                     [st |-> "idle", value |-> 0, config |-> <<>>,
                      result |-> "none", calls |-> 0]]

\* the job, the caches and the temp directory of an installation that has
\* not analysed or run the job yet
JobAtRest ==
    /\ temp_files = 0
    /\ conflicts = {}
    /\ cache_files = NoCache
    /\ tree_origin = [k \in Sides |-> "none"]
    /\ clock = 0
    /\ config_json = [k \in Sides |-> "config1"]
    /\ force_refresh = FALSE
    /\ progress_channel = <<>>
    /\ progress_sent = <<>>
    /\ progress_handle = NoTicker
    /\ db = EmptyDb
    /\ cache_dir = {}
    /\ transfer_cache = <<>>
    /\ created_dirs = RootOnly
    /\ writers = NoWriters
    /\ cancel_signals = None
    /\ sync_runs = NoSyncRuns
    /\ local_files = LocalDirAtRest
    /\ local_writes = NoLocalWrites
    /\ stream_copy = NoStream
    /\ config_files = ConfigDirAtRest
    /\ config_saves = NoConfigSaves

\* the same with storages whose operations fail with passing errors only
JobFresh ==
    /\ JobAtRest
    /\ storage_errors = {"Transient"}

\* the state of the engine's own variables before a run
EngineFresh ==
    /\ cancelled = FALSE
    /\ executable_actions = <<>>
    /\ next_action = 1
    /\ tasks = <<>>
    /\ permits = 0
    /\ stats = ZeroStats
    /\ errors = <<>>
    /\ synced_states = <<>>
    /\ report = None
    /\ history = <<>>

(***************************************************************************)
(* SpecCompare: compare_trees on its own                                   *)
(***************************************************************************)

\* FileInfo values that differ in size only, and a directory
PlainInfos == {FileInfo(1, 10, FALSE, None), FileInfo(2, 10, FALSE, None),
               FileInfo(0, 10, TRUE, None)}

\* FileInfo values that differ in every field compare_files reads
FileInfos ==
    {FileInfo(s, t, FALSE, c) : s \in {1, 2}, t \in {10, 12, 13},
                                c \in {None, Some("c1"), Some("c2")}}
    \cup {FileInfo(0, 10, TRUE, None)}

TreesWithin(source, dest) == Cardinality(AllPaths(source, dest)) <= MaxPaths

InitCompare ==
    /\ syncMode \in SyncModes
    /\ \/ /\ compare_config = FileComparatorDefault
          /\ source_tree \in PartialFns(Paths, PlainInfos)
          /\ dest_tree \in PartialFns(Paths, PlainInfos)
          /\ TreesWithin(source_tree, dest_tree)
       \/ /\ compare_config \in CompareConfigs
          /\ \E p \in Paths :
                /\ source_tree \in PartialFns({p}, FileInfos)
                /\ dest_tree \in PartialFns({p}, FileInfos)
    /\ compared = <<>>
    /\ actions = <<>>
    /\ pc = "compare"
    /\ source_store = <<>>
    /\ dest_store = <<>>
    /\ file_states = <<>>
    /\ file_states_start = <<>>
    /\ max_concurrent_transfers = 1
    /\ conflict_resolutions = <<>>
    /\ storage_type = [k \in Sides |-> "Local"]
    /\ remote_cache_ttl = 0
    /\ JobFresh
    /\ EngineFresh

\* one call of FileComparator::compare_trees
CompareTrees ==
    /\ pc = "compare"
    /\ \E order \in IterationOrders(AllPaths(source_tree, dest_tree)) :
          compared' = compare_trees(compare_config, source_tree, dest_tree,
                                    syncMode, order)
    /\ actions' = compared'
    /\ pc' = "compared"
    /\ UNCHANGED <<cmpVars, cacheVars, envVars, execVars, cancelled, report, history>>

NextCompare == CompareTrees

SpecCompare == InitCompare /\ [][NextCompare]_vars

(***************************************************************************)
(* Spec: one run of SyncEngine::run_sync                                   *)
(***************************************************************************)

\* FileScanner::scan_storage: directories are left out (include_dirs is
\* false) and a Local listing carries no checksum.  The engine's comparator
\* (use_checksum = false, size_only_for_same_size = true) never reads
\* modified_time.
scan_storage(store) ==
    [p \in DOMAIN store |-> FileInfo(Len(store[p]), 0, FALSE, None)]

(***************************************************************************)
(* cache.rs: the file-list cache, and its use by run_sync and analyze_job  *)
(***************************************************************************)

\* db::StorageType: Local, and S3 for the remote types
StorageTypes == {"Local", "S3"}

\* serde_json::to_string(&job.sourceConfig): the job's configuration of a
\* side as first saved, and after the user edited it
ConfigJsons == {"config1", "config2"}

\* FileListCache::hash_config: blake3 of the JSON, 16 hex characters
hash_config(config) == Blake3Hex(<<config>>, 16)

\* CacheEntry, as save builds it
CacheEntry(files, cached_at, config) ==
    [files |-> files, cached_at |-> cached_at, config_hash |-> hash_config(config)]

\* a bug: an entry is returned whatever configuration it was saved under
load_IgnoresConfig(cache, key, config, ttl_seconds, now) ==
    IF cache[key] = None THEN [result |-> None, cache |-> cache]
    ELSE LET entry == cache[key][1]
             removed == [cache EXCEPT ![key] = None]
         IN  IF ttl_seconds > 0 /\ now - entry.cached_at > ttl_seconds
             THEN [result |-> None, cache |-> removed]
             ELSE [result |-> Some([files |-> entry.files,
                                    cached_at |-> entry.cached_at]),
                   cache |-> cache]

\* FileListCache::load: the CacheResult, and the cache files after the call
\* (an entry of another configuration or an expired one is removed;
\* ttl_seconds = 0 means the entry never expires)
load(cache, key, config, ttl_seconds, now) ==
    IF cache[key] = None THEN [result |-> None, cache |-> cache]
    ELSE LET entry == cache[key][1]
             removed == [cache EXCEPT ![key] = None]
         IN  IF entry.config_hash # hash_config(config)
             THEN [result |-> None, cache |-> removed]
             ELSE IF ttl_seconds > 0 /\ now - entry.cached_at > ttl_seconds
             THEN [result |-> None, cache |-> removed]
             ELSE [result |-> Some([files |-> entry.files,
                                    cached_at |-> entry.cached_at]),
                   cache |-> cache]

\* FileListCache::save (serde_json writes and reads back every field of
\* FileInfo)
save(cache, key, config, files, now) ==
    [cache EXCEPT ![key] = Some(CacheEntry(files, now, config))]

\* a bug: only the file of the cache's own side is removed
clear_SourceOnly(cache) == [cache EXCEPT !["source"] = None]

\* FileListCache::clear: for storage_type in ["source", "dest"] remove_file
clear(cache) == [k \in Sides |-> None]

\* run_sync, lines 316-322, and analyze_job, lines 96-102: with_ttl of a side
side_ttl(typ, remote_ttl) == IF typ = "Local" THEN 0 ELSE remote_ttl

\* SyncConfig.force_refresh: start_sync leaves the default
SyncConfigForceRefresh == FALSE

\* run_sync, lines 327-384 and 411-487, and analyze_job, lines 107-186: the
\* tree of a side.  `before_scan` is the cache when the scan begins, `cache`
\* the cache after a successful scan was saved or an entry was loaded.
scan_with_cache(cache, key, typ, config, remote_ttl, now, store, force) ==
    LET fresh == scan_storage(store)
        l == load(cache, key, config, side_ttl(typ, remote_ttl), now)
        cleared == IF key = "source" THEN clear(cache) ELSE cache
    IN  IF ~force
        THEN IF l.result # None
             THEN [tree |-> l.result[1].files, cache |-> l.cache,
                   before_scan |-> l.cache, origin |-> "cache"]
             ELSE [tree |-> fresh, cache |-> save(l.cache, key, config, fresh, now),
                   before_scan |-> l.cache, origin |-> "scan"]
        ELSE [tree |-> fresh, cache |-> save(cleared, key, config, fresh, now),
              before_scan |-> cleared, origin |-> "scan"]

\* scan_with_cache for a side of the job in the current state
scan_side(key, store, force) ==
    scan_with_cache(cache_files, key, storage_type[key], config_json[key],
                    remote_cache_ttl, clock, store, force)

\* a row of table file_states, keyed by (job_id, file_path); last_sync_time
\* is 0 for a row written before this run and 1 for a row this run writes
FileStateRow(size, checksum, time) ==
    [file_size |-> size, checksum |-> checksum, last_sync_time |-> time]

\* the hash execute_action computes for the bytes it copies
copy_hash(data) ==
    IF Len(data) > DEFAULT_STREAM_THRESHOLD THEN stream_hash(data)
    ELSE calculate_quick_hash(data)

\* the rows earlier runs can have left: one per successful non-reverse copy
SavedRows == {FileStateRow(Len(d), Some(copy_hash(d)), 0) : d \in SourceData}

\* bound: the number of file_states rows the job has when the run begins
MaxSavedRows == 1

\* the conflict_resolutions start_sync is called with: none, or the choice
\* made for a path an analysis of the job showed as a Conflict (a file of a
\* Bidirectional job that differs in size between the two sides)
ResolutionMaps(mode, source, dest) ==
    IF /\ mode = "Bidirectional"
       /\ PathA \in DOMAIN source \cap DOMAIN dest
       /\ Len(source[PathA]) # Len(dest[PathA])
    THEN {<<>>} \cup {[p \in {PathA} |-> r] : r \in {"skip"}}
    ELSE {<<>>}

Init ==
    /\ syncMode \in SyncModes
    /\ compare_config = FileComparatorDefault
    /\ source_tree = <<>>
    /\ dest_tree = <<>>
    /\ compared = <<>>
    /\ actions = <<>>
    /\ pc = "start"
    /\ source_store \in PartialFns(StorePaths, SourceData)
    /\ dest_store \in PartialFns(StorePaths, DestData)
    /\ file_states \in PartialFns(StorePaths, SavedRows)
    /\ Cardinality(DOMAIN file_states) <= MaxSavedRows
    /\ file_states_start = file_states
    /\ max_concurrent_transfers \in 1..MaxConcurrent
    /\ conflict_resolutions \in ResolutionMaps(syncMode, source_store, dest_store)
    /\ storage_type = [k \in Sides |-> "Local"]
    /\ remote_cache_ttl = 0
    /\ JobFresh
    /\ EngineFresh

\* create_failed_report
create_failed_report(errs) ==
    [status |-> "Failed", filesScanned |-> 0, filesCopied |-> 0,
     filesDeleted |-> 0, filesSkipped |-> 0, filesFailed |-> 0,
     bytesTransferred |-> 0, errors |-> errs, reachedSyncing |-> FALSE]

\* create_cancelled_report
create_cancelled_report ==
    [status |-> "Cancelled", filesScanned |-> 0, filesCopied |-> 0,
     filesDeleted |-> 0, filesSkipped |-> 0, filesFailed |-> 0,
     bytesTransferred |-> 0, errors |-> <<"sync cancelled">>,
     reachedSyncing |-> FALSE]

\* `return Ok(report)` from run_sync before execution began
ReturnEarly(r) ==
    /\ report' = Some(r)
    /\ pc' = "done"

\* SyncEngine::cancel, reached through cancel_sync's one-shot signal
Cancel ==
    /\ pc # "done"
    /\ ~cancelled
    /\ cancelled' = TRUE
    /\ UNCHANGED <<cmpVars, cacheVars, compared, actions, pc, envVars, execVars, report,
                   history>>

\* run_sync, to the reset of the cancellation flag (engine.rs:193)
RunSyncBegin ==
    /\ pc = "start"
    /\ cancelled' = FALSE
    /\ pc' = "connect"
    /\ UNCHANGED <<cmpVars, cacheVars, compared, actions, envVars, execVars, report,
                   history>>

\* run_sync: create_storage for both sides and the probe of the destination
Connect ==
    /\ pc = "connect"
    /\ \/ /\ pc' = "scan_source"
          /\ UNCHANGED report
       \/ ReturnEarly(create_failed_report(<<"connect failed">>))
    /\ UNCHANGED <<cmpVars, cacheVars, compared, actions, envVars, execVars, cancelled,
                   history>>

\* run_sync: the cancellation check of line 283 and the scan of the source
ScanSource ==
    /\ pc = "scan_source"
    /\ IF cancelled
       THEN /\ ReturnEarly(create_cancelled_report)
            /\ UNCHANGED <<source_tree, cacheVars>>
       ELSE LET s == scan_side("source", source_store, SyncConfigForceRefresh)
            IN  \/ /\ source_tree' = s.tree
                   /\ cache_files' = s.cache
                   /\ tree_origin' = [tree_origin EXCEPT !["source"] = s.origin]
                   /\ pc' = "scan_dest"
                   /\ UNCHANGED report
                \/ \* scan_storage returned an error
                   /\ s.origin = "scan"
                   /\ ReturnEarly(create_failed_report(<<"scan source failed">>))
                   /\ cache_files' = s.before_scan
                   /\ UNCHANGED <<source_tree, tree_origin>>
    /\ UNCHANGED <<syncMode, compare_config, dest_tree, compared, actions,
                   envVars, execVars, cancelled, history>>

\* run_sync: the cancellation check of line 386 and the scan of the
\* destination
ScanDest ==
    /\ pc = "scan_dest"
    /\ IF cancelled
       THEN /\ ReturnEarly(create_cancelled_report)
            /\ UNCHANGED <<dest_tree, cacheVars>>
       ELSE LET s == scan_side("dest", dest_store, SyncConfigForceRefresh)
            IN  \/ /\ dest_tree' = s.tree
                   /\ cache_files' = s.cache
                   /\ tree_origin' = [tree_origin EXCEPT !["dest"] = s.origin]
                   /\ pc' = "comparing"
                   /\ UNCHANGED report
                \/ \* scan_storage returned an error
                   /\ s.origin = "scan"
                   /\ ReturnEarly(create_failed_report(<<"scan dest failed">>))
                   /\ cache_files' = s.before_scan
                   /\ UNCHANGED <<dest_tree, tree_origin>>
    /\ UNCHANGED <<syncMode, compare_config, source_tree, compared, actions,
                   envVars, execVars, cancelled, history>>

\* run_sync: the cancellation check of line 496 and compare_trees with
\* FileComparator::default()
Compare ==
    /\ pc = "comparing"
    /\ IF cancelled
       THEN ReturnEarly(create_cancelled_report) /\ UNCHANGED <<compared, actions>>
       ELSE /\ \E order \in IterationOrders(AllPaths(source_tree, dest_tree)) :
                  compared' = compare_trees(FileComparatorDefault, source_tree,
                                            dest_tree, syncMode, order)
            /\ actions' = compared'
            /\ pc' = "hash_skip"
            /\ UNCHANGED report
    /\ UNCHANGED <<cmpVars, cacheVars, envVars, execVars, cancelled, history>>

\* run_sync, lines 533-545: the paths of the non-reverse Copy actions that
\* have a saved state of the same size with a checksum (the destination tree
\* is not consulted)
files_to_hash(acts, saved_states) ==
    {acts[i].source_path : i \in
        {j \in DOMAIN acts :
            /\ acts[j].type = "Copy"
            /\ ~acts[j].reverse
            /\ acts[j].source_path \in DOMAIN saved_states
            /\ saved_states[acts[j].source_path].file_size = acts[j].size
            /\ saved_states[acts[j].source_path].checksum # None}}

\* run_sync, lines 557-558: &current_hash == saved_hash
hash_matches(saved, data) == Some(calculate_quick_hash(data)) = saved.checksum

\* run_sync, lines 551-579: a Copy whose source was read and whose quick hash
\* equals the saved checksum becomes a Skip; `unread` are the paths whose
\* source_storage.read failed
hash_skip(acts, saved_states, store, unread) ==
    LET hits == {p \in files_to_hash(acts, saved_states) \ unread :
                    p \in DOMAIN store /\ hash_matches(saved_states[p], store[p])}
    IN  [i \in DOMAIN acts |->
            IF acts[i].type = "Copy" /\ acts[i].source_path \in hits
            THEN Skip(acts[i].source_path)
            ELSE acts[i]]

\* run_sync: get_job_states and the hash-skip loops
HashSkip ==
    /\ pc = "hash_skip"
    /\ \E unread \in SUBSET files_to_hash(actions, file_states) :
          actions' = hash_skip(actions, file_states, source_store, unread)
    /\ pc' = "execute"
    /\ UNCHANGED <<cmpVars, cacheVars, compared, envVars, execVars, cancelled, report,
                   history>>

IsForwardCopy(a) == a.type = "Copy" /\ ~a.reverse
IsReverseCopy(a) == a.type = "Copy" /\ a.reverse

\* FileComparator::summarize_actions
summarize_actions(acts) ==
    [copy_count |-> Cardinality({i \in DOMAIN acts : IsForwardCopy(acts[i])}),
     reverse_copy_count |->
         Cardinality({i \in DOMAIN acts : IsReverseCopy(acts[i])}),
     delete_count |-> Cardinality({i \in DOMAIN acts : acts[i].type = "Delete"}),
     skip_count |-> Cardinality({i \in DOMAIN acts : acts[i].type = "Skip"}),
     conflict_count |->
         Cardinality({i \in DOMAIN acts : acts[i].type = "Conflict"})]

\* execute_sync_parallel: actions.into_iter().filter(not Skip).collect()
RECURSIVE FilterExecutable(_)
FilterExecutable(acts) ==
    IF acts = <<>> THEN <<>>
    ELSE IF acts[1].type = "Skip" THEN FilterExecutable(Tail(acts))
    ELSE <<acts[1]>> \o FilterExecutable(Tail(acts))

\* a task that was not spawned
NoTask == [st |-> "none", attempt |-> 0, attempts |-> 0, outcome |-> "none",
           file_hash |-> None, written |-> None, delays |-> <<>>,
           last_error |-> None]

\* run_sync: the cancellation check of line 598 and the set-up of
\* execute_sync_parallel (semaphore, counters, executable_actions)
ExecuteBegin ==
    /\ pc = "execute"
    /\ IF cancelled
       THEN ReturnEarly(create_cancelled_report) /\ UNCHANGED execVars
       ELSE /\ executable_actions' = FilterExecutable(actions)
            /\ tasks' = [i \in 1..Len(FilterExecutable(actions)) |-> NoTask]
            /\ next_action' = 1
            /\ permits' = max_concurrent_transfers
            /\ stats' = ZeroStats
            /\ errors' = <<>>
            /\ synced_states' = <<>>
            /\ pc' = "spawn_check"
            /\ UNCHANGED report
    /\ UNCHANGED <<cmpVars, cacheVars, compared, actions, envVars, cancelled, history>>

(***************************************************************************)
(* execute_sync_parallel: the spawn loop and the action tasks              *)
(***************************************************************************)

runVars == <<cmpVars, compared, actions, file_states, file_states_start,
             jobVars, cacheVars, executable_actions, report, history>>

\* the head of `for action in executable_actions`: the loop ends when the
\* actions are used up, and breaks when the cancellation flag is set
SpawnCheck ==
    /\ pc = "spawn_check"
    /\ pc' = IF next_action > Len(executable_actions) \/ cancelled
             THEN "join" ELSE "spawn_acquire"
    /\ UNCHANGED <<cmpVars, cacheVars, compared, actions, envVars, execVars, cancelled,
                   report, history>>

\* a bug: the task is spawned without a permit
SpawnTask_NoPermit ==
    /\ pc = "spawn_acquire"
    /\ permits' = permits - 1
    /\ tasks' = [tasks EXCEPT ![next_action] = [NoTask EXCEPT !.st = "attempt"]]
    /\ next_action' = next_action + 1
    /\ pc' = "spawn_check"
    /\ UNCHANGED <<cmpVars, cacheVars, compared, actions, envVars, executable_actions,
                   stats, errors, synced_states, cancelled, report, history>>

\* semaphore.acquire_owned().await and tokio::spawn of the action's task
SpawnTask ==
    /\ pc = "spawn_acquire"
    /\ permits > 0
    /\ permits' = permits - 1
    /\ tasks' = [tasks EXCEPT ![next_action] = [NoTask EXCEPT !.st = "attempt"]]
    /\ next_action' = next_action + 1
    /\ pc' = "spawn_check"
    /\ UNCHANGED <<cmpVars, cacheVars, compared, actions, envVars, executable_actions,
                   stats, errors, synced_states, cancelled, report, history>>

\* a bug: ActionResult filled in for a reverse Copy too
action_result_AnyDirection(action, hash, size) ==
    [file_path |-> Some(action.source_path), file_hash |-> Some(hash),
     file_size |-> Some(size)]

\* execute_action: the ActionResult of a Copy (lines 1112-1116, 1135-1139)
action_result(action, hash, size) ==
    [file_path |-> IF ~action.reverse THEN Some(action.source_path) ELSE None,
     file_hash |-> IF ~action.reverse THEN Some(hash) ELSE None,
     file_size |-> IF ~action.reverse THEN Some(size) ELSE None]

\* execute_action_with_retry, lines 973-985: the FileState of a result
file_state_of(result) ==
    IF result.file_path # None /\ result.file_hash # None
       /\ result.file_size # None
    THEN Some([file_path |-> result.file_path[1],
               row |-> FileStateRow(result.file_size[1], result.file_hash, 1)])
    ELSE None

\* a bug: the task ends without giving its permit back
TaskSucceeds_KeepsPermit(i, result, hash, written) ==
    /\ tasks' = [tasks EXCEPT ![i] =
                    [@ EXCEPT !.st = "done", !.attempts = @ + 1,
                              !.outcome = "ok", !.file_hash = Some(hash),
                              !.written = Some(written)]]
    /\ synced_states' = IF file_state_of(result) # None
                        THEN Append(synced_states, file_state_of(result)[1])
                        ELSE synced_states
    /\ errors' = errors
    /\ permits' = permits

\* the spawned task after execute_action_with_retry returned Ok: count,
\* collect the FileState, release the permit (lines 890-899, 907)
TaskSucceeds(i, result, hash, written) ==
    /\ tasks' = [tasks EXCEPT ![i] =
                    [@ EXCEPT !.st = "done", !.attempts = @ + 1,
                              !.outcome = "ok", !.file_hash = Some(hash),
                              !.written = Some(written)]]
    /\ synced_states' = IF file_state_of(result) # None
                        THEN Append(synced_states, file_state_of(result)[1])
                        ELSE synced_states
    /\ errors' = errors
    /\ permits' = permits + 1

\* the same for an action that yields no FileState (a Delete)
TaskSucceedsPlain(i) ==
    /\ tasks' = [tasks EXCEPT ![i] =
                    [@ EXCEPT !.st = "done", !.attempts = @ + 1,
                              !.outcome = "ok"]]
    /\ UNCHANGED <<synced_states, errors>>
    /\ permits' = permits + 1

\* the errors a storage operation returns, by what went wrong
StorageErrors == {"Transient", "Timeout", "ConfigInvalid", "PermissionDenied"}

\* the error execute_action returns for a Conflict (line 1157)
ConflictError == "Conflict"

\* the exponential backoff after the failure of attempt number `attempt`
\* (line 996)
backoff_delay(attempt) ==
    DEFAULT_RETRY_BASE_DELAY_MS * RETRY_BACKOFF_BASE ^ attempt

\* a bug: the loop runs over 0..max_retries - 1, one attempt less
TaskAttemptFails_OneAttemptLess(i, e) ==
    IF tasks[i].attempt + 1 < max_retries
    THEN /\ tasks' = [tasks EXCEPT ![i] =
                         [@ EXCEPT !.st = "sleeping", !.attempts = @ + 1,
                                   !.last_error = Some(e),
                                   !.delays = Append(@, backoff_delay(tasks[i].attempt))]]
         /\ UNCHANGED <<errors, synced_states, permits>>
    ELSE /\ tasks' = [tasks EXCEPT ![i] =
                         [@ EXCEPT !.st = "done", !.attempts = @ + 1,
                                   !.last_error = Some(e),
                                   !.outcome = "failed"]]
         /\ errors' = Append(errors, <<ActionPath(executable_actions[i]), e>>)
         /\ synced_states' = synced_states
         /\ permits' = permits + 1

\* an Err e from execute_action at the task's current attempt: back off and
\* retry while attempt < max_retries, else the task ends failed (lines
\* 991-1019, 900-907)
TaskAttemptFails(i, e) ==
    IF tasks[i].attempt < max_retries
    THEN /\ tasks' = [tasks EXCEPT ![i] =
                         [@ EXCEPT !.st = "sleeping", !.attempts = @ + 1,
                                   !.last_error = Some(e),
                                   !.delays = Append(@, backoff_delay(tasks[i].attempt))]]
         /\ UNCHANGED <<errors, synced_states, permits>>
    ELSE /\ tasks' = [tasks EXCEPT ![i] =
                         [@ EXCEPT !.st = "done", !.attempts = @ + 1,
                                   !.last_error = Some(e),
                                   !.outcome = "failed"]]
         /\ errors' = Append(errors, <<ActionPath(executable_actions[i]), e>>)
         /\ synced_states' = synced_states
         /\ permits' = permits + 1

\* a bug: a failed task is not counted
AddStats_FailedUncounted(completed, failed, bytes) ==
    [files_completed |-> stats.files_completed + completed,
     files_failed |-> stats.files_failed,
     bytes_transferred |-> stats.bytes_transferred + bytes]

\* the fetch_add calls on the run's TransferStats (lines 891, 901, 1097, 1131)
AddStats(completed, failed, bytes) ==
    [files_completed |-> stats.files_completed + completed,
     files_failed |-> stats.files_failed + failed,
     bytes_transferred |-> stats.bytes_transferred + bytes]

FailedNow(i) == IF tasks[i].attempt < max_retries THEN 0 ELSE 1

\* the number of chunks phase 2 of a streamed copy reads from the temp file
NumChunks(size) == (size + DEFAULT_CHUNK_SIZE - 1) \div DEFAULT_CHUNK_SIZE

\* bytes of the first k chunks
ChunkBytes(k, size) ==
    IF k * DEFAULT_CHUNK_SIZE < size THEN k * DEFAULT_CHUNK_SIZE ELSE size

\* execute_action_with_retry, the check at the head of an attempt: the flag
\* is set, the task returns Err("cancelled") and is counted failed
AttemptCancelled(i) ==
    /\ tasks[i].st = "attempt"
    /\ cancelled
    /\ tasks' = [tasks EXCEPT ![i] =
                    [@ EXCEPT !.st = "done", !.outcome = "cancelled"]]
    /\ stats' = AddStats(0, 1, 0)
    /\ errors' = Append(errors, <<None, "cancelled">>)
    /\ permits' = permits + 1
    /\ UNCHANGED <<runVars, temp_files, source_store, dest_store, synced_states, pc,
                   next_action, cancelled>>

\* execute_action for a Copy of at most the stream threshold: read, quick
\* hash, write, add the action's size to bytes_transferred
AttemptCopy(i) ==
    LET a == executable_actions[i]
        from == IF a.reverse THEN dest_store ELSE source_store
    IN  /\ tasks[i].st = "attempt"
        /\ ~cancelled
        /\ a.type = "Copy"
        /\ a.size <= DEFAULT_STREAM_THRESHOLD
        /\ \/ \* from.read or to.write returned an error
              /\ \E e \in storage_errors : TaskAttemptFails(i, e)
              /\ stats' = AddStats(0, FailedNow(i), 0)
              /\ UNCHANGED <<source_store, dest_store>>
           \/ /\ a.source_path \in DOMAIN from
              /\ LET data == from[a.source_path]
                     hash == calculate_quick_hash(data)
                 IN  /\ IF a.reverse
                        THEN /\ source_store' = [p \in DOMAIN source_store
                                                    \cup {a.source_path} |->
                                   IF p = a.source_path THEN data
                                   ELSE source_store[p]]
                             /\ UNCHANGED dest_store
                        ELSE /\ dest_store' = [p \in DOMAIN dest_store
                                                  \cup {a.dest_path} |->
                                   IF p = a.dest_path THEN data
                                   ELSE dest_store[p]]
                             /\ UNCHANGED source_store
                     /\ TaskSucceeds(i, action_result(a, hash, Len(data)),
                                     hash, Len(data))
                     /\ stats' = AddStats(1, 0, a.size)
        /\ UNCHANGED <<runVars, temp_files, pc, next_action, cancelled>>

\* execute_action for a Copy above the stream threshold: phase 1 range-reads
\* the source into a temp file and hashes it, phase 2 hands the temp file to
\* write_stream as a stream whose every chunk, when it is read, adds its
\* length to bytes_transferred
AttemptStreamCopy(i) ==
    LET a == executable_actions[i]
        from == IF a.reverse THEN dest_store ELSE source_store
    IN  /\ tasks[i].st = "attempt"
        /\ ~cancelled
        /\ a.type = "Copy"
        /\ a.size > DEFAULT_STREAM_THRESHOLD
        /\ \/ \* with the temp file created (the temp directory is taken to
              \* be writable), read_range, write_all or flush returned an
              \* error: `?` returns at once and the created file stays
              /\ \E e \in storage_errors : TaskAttemptFails(i, e)
              /\ stats' = AddStats(0, FailedNow(i), 0)
              /\ temp_files' = temp_files + 1
              /\ UNCHANGED <<source_store, dest_store>>
           \/ \* write_stream returned an error after reading k chunks: `?`
              \* returns before remove_file
              /\ a.source_path \in DOMAIN from
              /\ \E k \in 0..NumChunks(a.size) :
                    stats' = AddStats(0, FailedNow(i), ChunkBytes(k, a.size))
              /\ \E e \in storage_errors : TaskAttemptFails(i, e)
              /\ temp_files' = temp_files + 1
              /\ UNCHANGED <<source_store, dest_store>>
           \/ /\ a.source_path \in DOMAIN from
              /\ Len(from[a.source_path]) >= a.size
              /\ LET data == SubSeq(from[a.source_path], 1, a.size)
                     hash == stream_hash(data)
                 IN  /\ IF a.reverse
                        THEN /\ source_store' = [p \in DOMAIN source_store
                                                    \cup {a.source_path} |->
                                   IF p = a.source_path THEN data
                                   ELSE source_store[p]]
                             /\ UNCHANGED dest_store
                        ELSE /\ dest_store' = [p \in DOMAIN dest_store
                                                  \cup {a.dest_path} |->
                                   IF p = a.dest_path THEN data
                                   ELSE dest_store[p]]
                             /\ UNCHANGED source_store
                     /\ TaskSucceeds(i, action_result(a, hash, a.size),
                                     hash, Len(data))
                     /\ stats' = AddStats(1, 0, Len(data))
                     \* tokio::fs::remove_file(&temp_path)
                     /\ temp_files' = temp_files
        /\ UNCHANGED <<runVars, pc, next_action, cancelled>>

\* a bug: the attempt does not look at the cancellation flag
AttemptDelete_IgnoresCancel(i) ==
    LET a == executable_actions[i] IN
    /\ tasks[i].st = "attempt"
    /\ a.type = "Delete"
    /\ \/ /\ \E e \in storage_errors : TaskAttemptFails(i, e)
          /\ stats' = AddStats(0, FailedNow(i), 0)
          /\ UNCHANGED <<source_store, dest_store>>
       \/ /\ IF a.from_dest
             THEN /\ dest_store' = [p \in DOMAIN dest_store \ {a.path} |->
                                       dest_store[p]]
                  /\ UNCHANGED source_store
             ELSE /\ source_store' = [p \in DOMAIN source_store \ {a.path} |->
                                         source_store[p]]
                  /\ UNCHANGED dest_store
          /\ TaskSucceedsPlain(i)
          /\ stats' = AddStats(1, 0, 0)
    /\ UNCHANGED <<runVars, temp_files, pc, next_action, cancelled>>

\* execute_action for a Delete: storage.delete(path)
AttemptDelete(i) ==
    LET a == executable_actions[i] IN
    /\ tasks[i].st = "attempt"
    /\ ~cancelled
    /\ a.type = "Delete"
    /\ \/ /\ \E e \in storage_errors : TaskAttemptFails(i, e)
          /\ stats' = AddStats(0, FailedNow(i), 0)
          /\ UNCHANGED <<source_store, dest_store>>
       \/ /\ IF a.from_dest
             THEN /\ dest_store' = [p \in DOMAIN dest_store \ {a.path} |->
                                       dest_store[p]]
                  /\ UNCHANGED source_store
             ELSE /\ source_store' = [p \in DOMAIN source_store \ {a.path} |->
                                         source_store[p]]
                  /\ UNCHANGED dest_store
          /\ TaskSucceedsPlain(i)
          /\ stats' = AddStats(1, 0, 0)
    /\ UNCHANGED <<runVars, temp_files, pc, next_action, cancelled>>

\* execute_action for a Conflict: always Err("conflict not resolved")
AttemptConflict(i) ==
    /\ tasks[i].st = "attempt"
    /\ ~cancelled
    /\ executable_actions[i].type = "Conflict"
    /\ TaskAttemptFails(i, ConflictError)
    /\ stats' = AddStats(0, FailedNow(i), 0)
    /\ UNCHANGED <<runVars, temp_files, source_store, dest_store, pc, next_action,
                   cancelled>>

\* execute_action_with_retry: the backoff sleep ends, the next attempt begins
Wake(i) ==
    /\ tasks[i].st = "sleeping"
    /\ tasks' = [tasks EXCEPT ![i] =
                    [@ EXCEPT !.st = "attempt", !.attempt = @ + 1]]
    /\ UNCHANGED <<runVars, temp_files, source_store, dest_store, pc, next_action, permits,
                   stats, errors, synced_states, cancelled>>

(***************************************************************************)
(* execute_sync_parallel: after the tasks, and the report of run_sync      *)
(***************************************************************************)

\* a bug: INSERT OR IGNORE, an existing row is kept
upsert_row_InsertOnly(table, state) ==
    IF state.file_path \in DOMAIN table THEN table
    ELSE [p \in DOMAIN table \cup {state.file_path} |->
             IF p = state.file_path THEN state.row ELSE table[p]]

\* batch_upsert, one statement: INSERT ... ON CONFLICT(job_id, file_path) DO
\* UPDATE
upsert_row(table, state) ==
    [p \in DOMAIN table \cup {state.file_path} |->
        IF p = state.file_path THEN state.row ELSE table[p]]

\* FileStateManager::batch_upsert
RECURSIVE batch_upsert(_, _)
batch_upsert(table, states) ==
    IF states = <<>> THEN table
    ELSE batch_upsert(upsert_row(table, states[1]), Tail(states))

Min(a, b) == IF a < b THEN a ELSE b

\* a bug: the cancellation flag is looked at before the failure count
final_report_CancelledFirst(summary, st, errs, scanned, flag) ==
    LET files_copied == Min(st.files_completed,
                            summary.copy_count + summary.reverse_copy_count)
    IN  [status |-> IF flag THEN "Cancelled"
                    ELSE IF st.files_failed > 0 THEN "Failed" ELSE "Completed",
         filesScanned |-> scanned,
         filesCopied |-> files_copied,
         filesDeleted |-> st.files_completed - files_copied,
         filesSkipped |-> summary.skip_count,
         filesFailed |-> st.files_failed,
         bytesTransferred |-> st.bytes_transferred,
         errors |-> errs,
         reachedSyncing |-> TRUE]

\* execute_sync_parallel, lines 932-949, and run_sync, lines 638-647 and
\* 700-713: the SyncReport of a run that reached execution
final_report(summary, st, errs, scanned, flag) ==
    LET files_copied == Min(st.files_completed,
                            summary.copy_count + summary.reverse_copy_count)
    IN  [status |-> IF st.files_failed > 0 THEN "Failed"
                    ELSE IF flag THEN "Cancelled" ELSE "Completed",
         filesScanned |-> scanned,
         filesCopied |-> files_copied,
         filesDeleted |-> st.files_completed - files_copied,
         filesSkipped |-> summary.skip_count,
         filesFailed |-> st.files_failed,
         bytesTransferred |-> st.bytes_transferred,
         errors |-> errs,
         reachedSyncing |-> TRUE]

\* log_sync_result: the row inserted into sync_logs
history_row(r) ==
    [status |-> CASE r.status = "Completed" -> "completed"
                  [] r.status = "Failed" -> "failed"
                  [] r.status = "Cancelled" -> "cancelled",
     files_scanned |-> r.filesScanned, files_copied |-> r.filesCopied,
     files_deleted |-> r.filesDeleted,
     bytes_transferred |-> r.bytesTransferred]

\* execute_sync_parallel once every handle was awaited: the collected
\* FileStates are saved; then run_sync builds the report and logs it
Join ==
    /\ pc = "join"
    /\ \A i \in DOMAIN tasks : tasks[i].st \in {"none", "done"}
    /\ file_states' = batch_upsert(file_states, synced_states)
    /\ report' = Some(final_report(summarize_actions(actions), stats, errors,
                                   Cardinality(DOMAIN source_tree)
                                       + Cardinality(DOMAIN dest_tree),
                                   cancelled))
    /\ history' = Append(history, history_row(report'[1]))
    \* run_sync, lines 694-698: source_cache.clear(&job_id)
    /\ cache_files' = IF report'[1].filesCopied > 0 \/ report'[1].filesDeleted > 0
                      THEN clear(cache_files) ELSE cache_files
    /\ pc' = "done"
    /\ UNCHANGED <<cmpVars, tree_origin, compared, actions, source_store,
                   dest_store, file_states_start, jobVars, temp_files,
                   execVars, cancelled>>

Next ==
    \/ Cancel
    \/ RunSyncBegin
    \/ Connect
    \/ ScanSource
    \/ ScanDest
    \/ Compare
    \/ HashSkip
    \/ ExecuteBegin
    \/ SpawnCheck
    \/ SpawnTask
    \/ \E i \in DOMAIN tasks :
          \/ AttemptCancelled(i)
          \/ AttemptCopy(i)
          \/ AttemptStreamCopy(i)
          \/ AttemptDelete(i)
          \/ AttemptConflict(i)
          \/ Wake(i)
    \/ Join

Spec == Init /\ [][Next]_vars

(***************************************************************************)
(* SpecCache: analyses of a job and the scans of a run, over the life of   *)
(* the job's cache files                                                   *)
(***************************************************************************)

\* bound: the largest remote_ttl, in seconds
MaxTtl == 1
\* bound: the seconds that pass
MaxClock == 2

\* the files a side can hold
CacheStores == PartialFns({PathA}, {SmallData})

\* analyze_job returned: its arguments are gone
AnalyzeReturns ==
    /\ pc' = "start"
    /\ force_refresh' = FALSE

InitCache ==
    /\ syncMode = "Mirror"
    /\ compare_config = FileComparatorDefault
    /\ source_tree = <<>>
    /\ dest_tree = <<>>
    /\ compared = <<>>
    /\ actions = <<>>
    /\ pc = "start"
    /\ source_store = [p \in {PathA} |-> SmallData]
    /\ dest_store = <<>>
    /\ file_states = <<>>
    /\ file_states_start = <<>>
    /\ max_concurrent_transfers = 1
    /\ conflict_resolutions = <<>>
    /\ storage_type \in [Sides -> StorageTypes]
    /\ remote_cache_ttl \in 0..MaxTtl
    /\ JobFresh
    /\ EngineFresh

\* what analyze_job leaves alone
analyzeFrame == <<syncMode, compare_config, source_store, dest_store,
                  file_states, file_states_start, execVars, cancelled, report,
                  history, temp_files, max_concurrent_transfers,
                  conflict_resolutions, conflicts, clock, storage_type,
                  config_json, remote_cache_ttl, storage_errors, componentVars>>

\* SystemTime::now advances by a second between two operations on the job
Tick ==
    /\ pc = "start"
    /\ clock < MaxClock
    /\ clock' = clock + 1
    /\ UNCHANGED <<cmpVars, cacheVars, compared, actions, pc, source_store,
                   dest_store, file_states, file_states_start, execVars,
                   cancelled, report, history, temp_files,
                   max_concurrent_transfers, conflict_resolutions, conflicts,
                   storage_type, config_json, remote_cache_ttl, storage_errors, force_refresh,
                   componentVars>>

\* the user edits the storage configuration of a side of the job
EditConfig ==
    /\ pc = "start"
    /\ \E k \in Sides :
          /\ config_json[k] = "config1"
          /\ config_json' = [config_json EXCEPT ![k] = "config2"]
    /\ UNCHANGED <<cmpVars, cacheVars, compared, actions, pc, source_store,
                   dest_store, file_states, file_states_start, execVars,
                   cancelled, report, history, temp_files,
                   max_concurrent_transfers, conflict_resolutions, conflicts,
                   clock, storage_type, remote_cache_ttl, storage_errors, force_refresh,
                   componentVars>>

\* analyze_job, to the creation of the two caches
AnalyzeBegin ==
    /\ pc = "start"
    /\ force_refresh' \in BOOLEAN
    /\ pc' = "analyze_source"
    /\ UNCHANGED <<analyzeFrame, cacheVars, source_tree, dest_tree, compared,
                   actions>>

\* analyze_job: the tree of the source
AnalyzeScanSource ==
    /\ pc = "analyze_source"
    /\ LET s == scan_side("source", source_store, force_refresh)
       IN  \/ /\ source_tree' = s.tree
              /\ cache_files' = s.cache
              /\ tree_origin' = [tree_origin EXCEPT !["source"] = s.origin]
              /\ pc' = "analyze_dest"
              /\ UNCHANGED force_refresh
           \/ \* scan_storage returned an error (or was cancelled): Err
              /\ s.origin = "scan"
              /\ cache_files' = s.before_scan
              /\ AnalyzeReturns
              /\ UNCHANGED <<source_tree, tree_origin>>
    /\ UNCHANGED <<analyzeFrame, dest_tree, compared, actions>>

\* analyze_job: the tree of the destination
AnalyzeScanDest ==
    /\ pc = "analyze_dest"
    /\ LET s == scan_side("dest", dest_store, force_refresh)
       IN  \/ /\ dest_tree' = s.tree
              /\ cache_files' = s.cache
              /\ tree_origin' = [tree_origin EXCEPT !["dest"] = s.origin]
              /\ pc' = "analyze_compare"
              /\ UNCHANGED force_refresh
           \/ \* scan_storage returned an error (or was cancelled): Err
              /\ s.origin = "scan"
              /\ cache_files' = s.before_scan
              /\ AnalyzeReturns
              /\ UNCHANGED <<dest_tree, tree_origin>>
    /\ UNCHANGED <<analyzeFrame, source_tree, compared, actions>>

\* analyze_job: compare_trees, and the DiffResult is returned
AnalyzeCompare ==
    /\ pc = "analyze_compare"
    /\ \E order \in IterationOrders(AllPaths(source_tree, dest_tree)) :
          compared' = compare_trees(FileComparatorDefault, source_tree,
                                    dest_tree, syncMode, order)
    /\ actions' = compared'
    /\ AnalyzeReturns
    /\ UNCHANGED <<analyzeFrame, cacheVars, source_tree, dest_tree>>

\* analyses, edits and the passing of time, and a run of the job up to its
\* two scans
NextCache ==
    \/ Tick
    \/ EditConfig
    \/ AnalyzeBegin
    \/ AnalyzeScanSource
    \/ AnalyzeScanDest
    \/ AnalyzeCompare
    \/ RunSyncBegin
    \/ Connect
    \/ ScanSource
    \/ ScanDest

SpecCache == InitCache /\ [][NextCache]_vars

(***************************************************************************)
(* SpecProgress: a run of a job, its progress ticker and the task of       *)
(* start_sync that receives the updates                                    *)
(***************************************************************************)

\* tokio::sync::mpsc::channel::<SyncProgress>(100), scaled
PROGRESS_CHANNEL_CAPACITY == 2

\* bound: how often the ticker's sleep ends
MaxTicks == 2

\* tx.send(progress).await: the future completes once the channel has room
\* for the update
send(progress) ==
    /\ Len(progress_channel) < PROGRESS_CHANNEL_CAPACITY
    /\ progress_channel' = Append(progress_channel, progress)
    /\ progress_sent' = Append(progress_sent, progress)

\* the fields of a SyncProgress that the counters of a run go into
SyncProgress(status, to_sync, completed, failed) ==
    [status |-> status, filesToSync |-> to_sync, filesCompleted |-> completed,
     filesFailed |-> failed]

\* the calls of send_progress in run_sync, named by their line in engine.rs
SendPoints == {"send196", "send288", "send330", "send390", "send414",
               "send436", "send501", "send603", "send668"}

\* SyncProgress.status of the update a call sends
SendStatus(at) ==
    CASE at = "send501" -> "Comparing"
      [] at = "send603" -> "Syncing"
      [] at = "send668" -> report[1].status
      [] OTHER -> "Scanning"

\* execute_sync_parallel: files_to_sync
files_to_sync(summary) ==
    summary.copy_count + summary.reverse_copy_count + summary.delete_count

\* the SyncProgress a call sends: the counters are 0 until the run executes;
\* line 603 sends files_to_sync with no file done, line 668 the counters of
\* the report
SendProgress(at) ==
    CASE at = "send603" ->
            SyncProgress("Syncing", files_to_sync(summarize_actions(actions)),
                         0, 0)
      [] at = "send668" ->
            SyncProgress(report[1].status,
                         files_to_sync(summarize_actions(actions)),
                         report[1].filesCopied + report[1].filesDeleted,
                         report[1].filesFailed)
      [] OTHER -> SyncProgress(SendStatus(at), 0, 0, 0)

\* where run_sync continues after the call
SendNext(at) ==
    CASE at = "send196" -> "connect"
      [] at = "send288" -> "scan_source"
      [] at = "send330" -> "check386"
      [] at = "send390" -> "scan_dest"
      [] at = "send414" -> "check496"
      [] at = "send436" -> "scanning_dest"
      [] at = "send501" -> "compare"
      [] at = "send603" -> "execute"
      [] at = "send668" -> "clear_cache"

\* the jobs whose runs are followed: between them they hold a plain Copy, a
\* Delete, a streamed Copy and a Conflict
ProgressJobs ==
    {[mode |-> "Mirror", source |-> [p \in {PathA} |-> SmallData],
      dest |-> [p \in {PathB} |-> OtherSmallData]],
     [mode |-> "Mirror", source |-> [p \in {PathA} |-> LargeData],
      dest |-> <<>>],
     [mode |-> "Bidirectional", source |-> [p \in {PathA} |-> SmallData],
      dest |-> [p \in {PathA} |-> OtherLargeData]]}

InitProgress ==
    /\ \E j \in ProgressJobs :
          /\ syncMode = j.mode
          /\ source_store = j.source
          /\ dest_store = j.dest
    /\ compare_config = FileComparatorDefault
    /\ source_tree = <<>>
    /\ dest_tree = <<>>
    /\ compared = <<>>
    /\ actions = <<>>
    /\ pc = "start"
    /\ file_states = <<>>
    /\ file_states_start = <<>>
    /\ max_concurrent_transfers = 1
    /\ conflict_resolutions = <<>>
    /\ storage_type = [k \in Sides |-> "Local"]
    /\ remote_cache_ttl = 0
    /\ temp_files = 0
    /\ conflicts = {}
    \* the job was analysed before the run, or it was not
    /\ cache_files \in
          {NoCache,
           [k \in Sides |->
               Some(CacheEntry(scan_storage(IF k = "source" THEN source_store
                                            ELSE dest_store), 0, "config1"))]}
    /\ tree_origin = [k \in Sides |-> "none"]
    /\ clock = 0
    /\ config_json = [k \in Sides |-> "config1"]
    /\ force_refresh = FALSE
    /\ progress_channel = <<>>
    /\ progress_sent = <<>>
    /\ progress_handle = NoTicker
    /\ db = EmptyDb
    /\ cache_dir = {}
    /\ transfer_cache = <<>>
    /\ created_dirs = RootOnly
    /\ writers = NoWriters
    /\ cancel_signals = None
    /\ sync_runs = NoSyncRuns
    /\ local_files = LocalDirAtRest
    /\ local_writes = NoLocalWrites
    /\ stream_copy = NoStream
    /\ config_files = ConfigDirAtRest
    /\ config_saves = NoConfigSaves
    /\ storage_errors = {"Transient"}
    /\ EngineFresh

\* what the steps of run_sync before execution leave alone
scanFrame == <<syncMode, compare_config, source_store, dest_store, file_states,
               file_states_start, execVars, history, temp_files,
               max_concurrent_transfers, conflict_resolutions, conflicts,
               clock, storage_type, config_json, remote_cache_ttl, storage_errors,
               force_refresh, storeVars, webdavVars, commandVars,
               fileVars>>

\* run_sync to the reset of the cancellation flag
ProgressBegin ==
    /\ pc = "start"
    /\ cancelled' = FALSE
    /\ pc' = "send196"
    /\ UNCHANGED <<scanFrame, cmpVars, cacheVars, compared, actions, report,
                   progressVars>>

\* self.send_progress(&progress_tx, ...).await in run_sync
EngineSend ==
    /\ pc \in SendPoints
    /\ send(SendProgress(pc))
    /\ pc' = SendNext(pc)
    /\ UNCHANGED <<scanFrame, cmpVars, cacheVars, compared, actions, report,
                   cancelled, progress_handle>>

\* the receiving task of start_sync: progress_rx.recv() and app.emit
Receive ==
    /\ progress_channel # <<>>
    /\ progress_channel' = Tail(progress_channel)
    /\ UNCHANGED <<scanFrame, cmpVars, cacheVars, compared, actions, report,
                   cancelled, pc, progress_sent, progress_handle>>

\* create_storage for both sides, the probe of the destination and the
\* cancellation check of line 283
ConnectChecked ==
    /\ pc = "connect"
    /\ \/ ReturnEarly(create_failed_report(<<"connect failed">>))
       \/ IF cancelled
          THEN ReturnEarly(create_cancelled_report)
          ELSE pc' = "send288" /\ UNCHANGED report
    /\ UNCHANGED <<scanFrame, cmpVars, cacheVars, compared, actions,
                   cancelled, progressVars>>

\* the tree of the source: from the cache, with an update sent at line 330,
\* or from scan_storage
SourceTree ==
    /\ pc = "scan_source"
    /\ LET s == scan_side("source", source_store, SyncConfigForceRefresh)
       IN  \/ /\ source_tree' = s.tree
              /\ cache_files' = s.cache
              /\ tree_origin' = [tree_origin EXCEPT !["source"] = s.origin]
              /\ pc' = IF s.origin = "cache" THEN "send330" ELSE "check386"
              /\ UNCHANGED report
           \/ /\ s.origin = "scan"
              /\ ReturnEarly(create_failed_report(<<"scan source failed">>))
              /\ cache_files' = s.before_scan
              /\ UNCHANGED <<source_tree, tree_origin>>
    /\ UNCHANGED <<scanFrame, syncMode, compare_config, dest_tree, compared,
                   actions, cancelled, progressVars>>

\* the cancellation checks of lines 386, 496 and 598
CheckCancelled ==
    /\ pc \in {"check386", "check496", "check598"}
    /\ IF cancelled
       THEN ReturnEarly(create_cancelled_report)
       ELSE /\ pc' = CASE pc = "check386" -> "send390"
                       [] pc = "check496" -> "send501"
                       [] pc = "check598" -> "send603"
            /\ UNCHANGED report
    /\ UNCHANGED <<scanFrame, cmpVars, cacheVars, compared, actions,
                   cancelled, progressVars>>

\* dest_cache.load: a hit is the tree of the destination, with an update
\* sent at line 414; after a miss an update is sent at line 436
DestCacheLoad ==
    /\ pc = "scan_dest"
    /\ LET s == scan_side("dest", dest_store, SyncConfigForceRefresh)
       IN  IF s.origin = "cache"
           THEN /\ dest_tree' = s.tree
                /\ cache_files' = s.cache
                /\ tree_origin' = [tree_origin EXCEPT !["dest"] = "cache"]
                /\ pc' = "send414"
           ELSE /\ cache_files' = s.before_scan
                /\ pc' = "send436"
                /\ UNCHANGED <<dest_tree, tree_origin>>
    /\ UNCHANGED <<scanFrame, syncMode, compare_config, source_tree, compared,
                   actions, cancelled, report, progressVars>>

\* scan_storage of the destination after the update of line 436
DestScan ==
    /\ pc = "scanning_dest"
    /\ LET s == scan_side("dest", dest_store, TRUE)
       IN  \/ /\ dest_tree' = s.tree
              /\ cache_files' = s.cache
              /\ tree_origin' = [tree_origin EXCEPT !["dest"] = "scan"]
              /\ pc' = "check496"
              /\ UNCHANGED report
           \/ /\ ReturnEarly(create_failed_report(<<"scan dest failed">>))
              /\ UNCHANGED <<dest_tree, cacheVars>>
    /\ UNCHANGED <<scanFrame, syncMode, compare_config, source_tree, compared,
                   actions, cancelled, progressVars>>

\* compare_trees, get_job_states and the hash-skip loops
CompareAndHashSkip ==
    /\ pc = "compare"
    /\ \E order \in IterationOrders(AllPaths(source_tree, dest_tree)) :
          compared' = compare_trees(FileComparatorDefault, source_tree,
                                    dest_tree, syncMode, order)
    /\ \E unread \in SUBSET files_to_hash(compared', file_states) :
          actions' = hash_skip(compared', file_states, source_store, unread)
    /\ pc' = "check598"
    /\ UNCHANGED <<scanFrame, cmpVars, cacheVars, cancelled, report,
                   progressVars>>

\* execute_sync_parallel to the spawn loop: semaphore, counters,
\* executable_actions and tokio::spawn of the progress ticker
ExecuteWithTicker ==
    /\ pc = "execute"
    /\ executable_actions' = FilterExecutable(actions)
    /\ tasks' = [i \in 1..Len(FilterExecutable(actions)) |-> NoTask]
    /\ next_action' = 1
    /\ permits' = max_concurrent_transfers
    /\ stats' = ZeroStats
    /\ errors' = <<>>
    /\ synced_states' = <<>>
    /\ progress_handle' = [NoTicker EXCEPT !.st = "sleeping"]
    /\ pc' = "spawn_check"
    /\ UNCHANGED <<cmpVars, cacheVars, compared, actions, source_store,
                   dest_store, file_states, file_states_start, history,
                   temp_files, max_concurrent_transfers, conflict_resolutions,
                   conflicts, clock, storage_type, config_json,
                   remote_cache_ttl, storage_errors, force_refresh, cancelled, report,
                   progress_channel, progress_sent, storeVars, webdavVars, commandVars,
               fileVars>>

\* what the ticker leaves alone
tickerFrame == <<scanFrame, cmpVars, cacheVars, compared, actions, report,
                 cancelled, pc>>

\* the ticker's sleep ends: it leaves its loop when the cancellation flag is
\* set, else it loads the counters
TickerWake ==
    /\ progress_handle.st = "sleeping"
    /\ ~progress_handle.aborted
    /\ progress_handle.ticks < MaxTicks
    /\ progress_handle' =
          [progress_handle EXCEPT
              !.st = IF cancelled THEN "ended" ELSE "woken",
              !.seen = stats.files_completed + stats.files_failed,
              !.failed = stats.files_failed,
              !.ticks = @ + 1]
    /\ UNCHANGED <<tickerFrame, progress_channel, progress_sent>>

\* the ticker's tx.send(...).await and the end of the iteration: the loop
\* ends when the loaded counters reach files_to_sync; an aborted task ends at
\* its next await
TickerSend ==
    /\ progress_handle.st = "woken"
    /\ send(SyncProgress("Syncing", files_to_sync(summarize_actions(actions)),
                          progress_handle.seen, progress_handle.failed))
    /\ progress_handle' =
          [progress_handle EXCEPT
              !.st = IF progress_handle.aborted
                        \/ progress_handle.seen
                              >= files_to_sync(summarize_actions(actions))
                     THEN "ended" ELSE "sleeping"]
    /\ UNCHANGED tickerFrame

\* JoinHandle::abort takes effect: the aborted ticker is dropped where it
\* awaits, in its sleep or in a send that waits for room
TickerDropped ==
    /\ progress_handle.aborted
    /\ \/ progress_handle.st = "sleeping"
       \/ /\ progress_handle.st = "woken"
          /\ Len(progress_channel) >= PROGRESS_CHANNEL_CAPACITY
    /\ progress_handle' = [progress_handle EXCEPT !.st = "ended"]
    /\ UNCHANGED <<tickerFrame, progress_channel, progress_sent>>

\* execute_sync_parallel once every handle was awaited: progress_handle.abort(),
\* the collected FileStates are saved; run_sync builds the report and logs it
JoinAndAbort ==
    /\ pc = "join"
    /\ \A i \in DOMAIN tasks : tasks[i].st \in {"none", "done"}
    /\ progress_handle' = [progress_handle EXCEPT !.aborted = TRUE]
    /\ file_states' = batch_upsert(file_states, synced_states)
    /\ report' = Some(final_report(summarize_actions(actions), stats, errors,
                                   Cardinality(DOMAIN source_tree)
                                       + Cardinality(DOMAIN dest_tree),
                                   cancelled))
    /\ history' = Append(history, history_row(report'[1]))
    /\ pc' = "send668"
    /\ UNCHANGED <<cmpVars, cacheVars, compared, actions, source_store,
                   dest_store, file_states_start, temp_files,
                   max_concurrent_transfers, conflict_resolutions, conflicts,
                   clock, storage_type, config_json, remote_cache_ttl, storage_errors,
                   force_refresh, execVars, cancelled, progress_channel,
                   progress_sent, storeVars, webdavVars, commandVars,
               fileVars>>

\* run_sync after the last update: source_cache.clear and Ok(SyncReport)
ClearAndReturn ==
    /\ pc = "clear_cache"
    /\ cache_files' = IF report[1].filesCopied > 0 \/ report[1].filesDeleted > 0
                      THEN clear(cache_files) ELSE cache_files
    /\ pc' = "done"
    /\ UNCHANGED <<scanFrame, cmpVars, tree_origin, compared, actions, report,
                   cancelled, progressVars>>

NextProgress ==
    \/ Cancel
    \/ ProgressBegin
    \/ EngineSend
    \/ Receive
    \/ ConnectChecked
    \/ SourceTree
    \/ CheckCancelled
    \/ DestCacheLoad
    \/ DestScan
    \/ CompareAndHashSkip
    \/ ExecuteWithTicker
    \/ SpawnCheck
    \/ SpawnTask
    \/ \E i \in DOMAIN tasks :
          \/ AttemptCancelled(i)
          \/ AttemptCopy(i)
          \/ AttemptStreamCopy(i)
          \/ AttemptDelete(i)
          \/ AttemptConflict(i)
          \/ Wake(i)
    \/ TickerWake
    \/ TickerSend
    \/ TickerDropped
    \/ JoinAndAbort
    \/ ClearAndReturn

SpecProgress == InitProgress /\ [][NextProgress]_vars

(***************************************************************************)
(* SpecRetry: run_sync on storages that fail with every kind of error      *)
(***************************************************************************)

\* the jobs of SpecProgress, a Mirror job with two files to copy (one of
\* them streamed) and a Backup job whose destination has a file of its own
RetryJobs ==
    ProgressJobs \cup
    {[mode |-> "Mirror",
      source |-> [p \in StorePaths |-> IF p = PathA THEN SmallData ELSE LargeData],
      dest |-> <<>>],
     [mode |-> "Backup", source |-> [p \in {PathA} |-> SmallData],
      dest |-> [p \in {PathB} |-> OtherSmallData]]}

\* a run of one of the jobs, started with any number of workers
InitRetry ==
    /\ \E j \in RetryJobs :
          /\ syncMode = j.mode
          /\ source_store = j.source
          /\ dest_store = j.dest
    /\ compare_config = FileComparatorDefault
    /\ source_tree = <<>>
    /\ dest_tree = <<>>
    /\ compared = <<>>
    /\ actions = <<>>
    /\ pc = "start"
    /\ file_states = <<>>
    /\ file_states_start = <<>>
    /\ max_concurrent_transfers \in 1..MaxConcurrent
    /\ conflict_resolutions = <<>>
    /\ storage_type = [k \in Sides |-> "Local"]
    /\ remote_cache_ttl = 0
    /\ JobAtRest
    /\ storage_errors = StorageErrors
    /\ EngineFresh

SpecRetry == InitRetry /\ [][Next]_vars

(***************************************************************************)
(* The stores: synctools.db and the cache directory                        *)
(***************************************************************************)

\* SyncJob.id of the jobs that are created
JobIds == {"job1", "job2"}

\* the job whose run Spec follows
RunJobId == "job1"

\* bound: the rows sync_logs and conflicts hold at a time, each
MaxRows == 1
\* bound: the transfers a TransferManager is asked to store
MaxTransfers == 2
\* bound: total_size of a transfer
MaxSize == 2

\* the uuids of transfers
TransferIds == 1..MaxTransfers

\* TransferStatus, as its Display writes it
TransferStatuses == {"pending", "in_progress", "completed", "failed", "paused"}

\* INTEGER PRIMARY KEY: the id of the row an INSERT adds to a table
last_insert_rowid(table) ==
    IF table = {} THEN 1
    ELSE 1 + CHOOSE m \in {r.id : r \in table} : \A r \in table : r.id <= m

\* SyncJob::save: INSERT INTO sync_jobs ... ON CONFLICT(id) DO UPDATE
SyncJob_save(d, id) == [d EXCEPT !.sync_jobs = @ \cup {[id |-> id]}]

\* the foreign keys of the child tables: ON DELETE CASCADE on job_id
schema_cascade(d, id) ==
    [d EXCEPT !.file_states = {r \in @ : r.job_id # id},
              !.transfer_states = {r \in @ : r.job_id # id},
              !.sync_logs = {r \in @ : r.job_id # id},
              !.conflicts = {r \in @ : r.job_id # id}]

\* SyncJob::delete: DELETE FROM sync_jobs WHERE id = ?
SyncJob_delete(d, id) ==
    [schema_cascade(d, id) EXCEPT !.sync_jobs = {r \in @ : r.id # id}]

\* a row of file_states
FileStateOf(job_id, file_path) ==
    [job_id |-> job_id, file_path |-> file_path, file_size |-> 1]

\* FileStateManager::upsert_file_state
upsert_file_state(d, state) ==
    [d EXCEPT !.file_states =
        {r \in @ : ~(r.job_id = state.job_id /\ r.file_path = state.file_path)}
        \cup {state}]

\* FileStateManager::cleanup_missing
cleanup_missing(d, job_id, existing_paths) ==
    IF existing_paths = {} THEN d
    ELSE [d EXCEPT !.file_states =
             {r \in @ : ~(r.job_id = job_id /\ r.file_path \notin existing_paths)}]

\* log_sync_result: INSERT INTO sync_logs
log_sync_result(d, job_id, status) ==
    [d EXCEPT !.sync_logs =
        @ \cup {[id |-> last_insert_rowid(@), job_id |-> job_id,
                 status |-> status]}]

\* ConflictResolver::record_conflict: INSERT INTO conflicts
record_conflict(d, job_id, file_path) ==
    [d EXCEPT !.conflicts =
        @ \cup {[id |-> last_insert_rowid(@), job_id |-> job_id,
                 file_path |-> file_path, resolution |-> None]}]

\* TransferManager::create_transfer_state, with the uuid it draws
create_transfer_state(id, job_id, file_path, total_size) ==
    [id |-> id, job_id |-> job_id, file_path |-> file_path,
     total_size |-> total_size, transferred_size |-> 0, status |-> "pending"]

\* TransferManager::save_transfer, the statement: INSERT INTO transfer_states
\* ... ON CONFLICT(id) DO UPDATE SET transferred_size, status
save_transfer(d, state) ==
    [d EXCEPT !.transfer_states =
        IF \E r \in @ : r.id = state.id
        THEN {IF r.id = state.id
              THEN [r EXCEPT !.transferred_size = state.transferred_size,
                             !.status = state.status]
              ELSE r : r \in @}
        ELSE @ \cup {state}]

\* TransferManager::update_progress, the statement: UPDATE transfer_states
\* SET transferred_size = ? WHERE id = ?
update_progress(d, id, transferred) ==
    [d EXCEPT !.transfer_states =
        {IF r.id = id THEN [r EXCEPT !.transferred_size = transferred] ELSE r :
            r \in @}]

\* the statement of mark_completed and of mark_failed: UPDATE transfer_states
\* SET status = ? WHERE id = ?
set_status(d, id, status) ==
    [d EXCEPT !.transfer_states =
        {IF r.id = id THEN [r EXCEPT !.status = status] ELSE r : r \in @}]

\* TransferManager::get_pending_transfers
get_pending_transfers(d, job_id) ==
    {r \in d.transfer_states :
        r.job_id = job_id /\ r.status \in {"pending", "in_progress", "paused"}}

\* the name of a cache file: <job_id>_<storage_type>.cache
CacheFile(job_id, side) == <<job_id, side>>

\* FileListCache::clear on the directory
clear_dir(dir, job_id) == dir \ {CacheFile(job_id, k) : k \in Sides}

(***************************************************************************)
(* SpecJobs: jobs are created, used and deleted                            *)
(***************************************************************************)

\* no run and no analysis is under way, the engine's variables are at rest
NoRun ==
    /\ syncMode = "Mirror"
    /\ compare_config = FileComparatorDefault
    /\ source_tree = <<>>
    /\ dest_tree = <<>>
    /\ compared = <<>>
    /\ actions = <<>>
    /\ pc = "start"
    /\ source_store = <<>>
    /\ dest_store = <<>>
    /\ file_states = <<>>
    /\ file_states_start = <<>>
    /\ max_concurrent_transfers = 1
    /\ conflict_resolutions = <<>>
    /\ storage_type = [k \in Sides |-> "Local"]
    /\ remote_cache_ttl = 0
    /\ EngineFresh

InitJobs ==
    /\ NoRun
    /\ JobFresh

\* what an operation on the stores leaves alone
storeFrame == <<cmpVars, cacheVars, compared, actions, pc, source_store,
                dest_store, file_states, file_states_start, execVars,
                cancelled, report, history, temp_files,
                max_concurrent_transfers, conflict_resolutions, conflicts,
                clock, storage_type, config_json, remote_cache_ttl, storage_errors,
                force_refresh, progressVars, webdavVars, commandVars,
               fileVars>>

JobExists(id) == \E r \in db.sync_jobs : r.id = id

\* create_job: SyncJob::new draws a new uuid, then job.save
CreateJob ==
    \E id \in JobIds :
        /\ ~JobExists(id)
        /\ db' = SyncJob_save(db, id)
        /\ UNCHANGED <<storeFrame, cache_dir, transfer_cache>>

\* delete_job
DeleteJob ==
    \E id \in JobIds :
        /\ db' = SyncJob_delete(db, id)
        /\ UNCHANGED <<storeFrame, cache_dir, transfer_cache>>

\* a run of the job saves the state of a file it copied
UpsertFileState ==
    \E id \in JobIds, p \in StorePaths :
        /\ JobExists(id)
        /\ db' = upsert_file_state(db, FileStateOf(id, p))
        /\ UNCHANGED <<storeFrame, cache_dir, transfer_cache>>

\* cleanup_missing(job_id, existing_paths)
CleanupMissing ==
    \E id \in JobIds, existing_paths \in SUBSET StorePaths :
        /\ db' = cleanup_missing(db, id, existing_paths)
        /\ UNCHANGED <<storeFrame, cache_dir, transfer_cache>>

\* a run of the job logs its result
LogSyncResult ==
    \E id \in JobIds :
        /\ JobExists(id)
        /\ Cardinality(db.sync_logs) < MaxRows
        /\ db' = log_sync_result(db, id, "completed")
        /\ UNCHANGED <<storeFrame, cache_dir, transfer_cache>>

\* record_conflict(job_id, file_path, ...)
RecordConflict ==
    \E id \in JobIds :
        /\ JobExists(id)
        /\ Cardinality(db.conflicts) < MaxRows
        /\ db' = record_conflict(db, id, PathA)
        /\ UNCHANGED <<storeFrame, cache_dir, transfer_cache>>

\* TransferManager::save_transfer: the statement, then cache.insert
SaveTransfer(state) ==
    /\ db' = save_transfer(db, state)
    /\ transfer_cache' = [i \in DOMAIN transfer_cache \cup {state.id} |->
                             IF i = state.id THEN state ELSE transfer_cache[i]]
    /\ UNCHANGED <<storeFrame, cache_dir>>

\* a transfer of a file of the job is created and saved
BeginTransfer ==
    \E id \in JobIds, t \in TransferIds :
        /\ JobExists(id)
        /\ \A r \in db.transfer_states : r.id # t
        /\ t \notin DOMAIN transfer_cache
        /\ SaveTransfer(create_transfer_state(t, id, PathA, MaxSize))

\* an analysis or a run of the job saves the scan of a side
SaveCacheFile ==
    \E id \in JobIds, k \in Sides :
        /\ JobExists(id)
        /\ cache_dir' = cache_dir \cup {CacheFile(id, k)}
        /\ UNCHANGED <<storeFrame, db, transfer_cache>>

\* clear_scan_cache(Some(job_id))
ClearScanCache ==
    \E id \in JobIds :
        /\ cache_dir' = clear_dir(cache_dir, id)
        /\ UNCHANGED <<storeFrame, db, transfer_cache>>

NextJobs ==
    \/ CreateJob
    \/ DeleteJob
    \/ UpsertFileState
    \/ CleanupMissing
    \/ LogSyncResult
    \/ RecordConflict
    \/ BeginTransfer
    \/ SaveCacheFile
    \/ ClearScanCache

SpecJobs == InitJobs /\ [][NextJobs]_vars

(***************************************************************************)
(* SpecTransfer: one TransferManager and the calls made on it              *)
(***************************************************************************)

\* TransferManager::get_transfer: the cache first, then the table
get_transfer(d, cache, id) ==
    IF id \in DOMAIN cache THEN Some(cache[id])
    ELSE IF \E r \in d.transfer_states : r.id = id
         THEN Some(CHOOSE r \in d.transfer_states : r.id = id)
         ELSE None

\* a caller changes the TransferState it got from get_transfer and saves it
ResaveTransfer ==
    \E t \in TransferIds, n \in 0..(MaxSize + 1), status \in TransferStatuses :
        /\ get_transfer(db, transfer_cache, t) # None
        /\ SaveTransfer([get_transfer(db, transfer_cache, t)[1] EXCEPT
                            !.transferred_size = n, !.status = status])

\* TransferManager::update_progress(id, transferred): the statement, then the
\* cached state when there is one
UpdateProgress ==
    \E t \in TransferIds, n \in 0..(MaxSize + 1) :
        /\ db' = update_progress(db, t, n)
        /\ transfer_cache' =
               [i \in DOMAIN transfer_cache |->
                   IF i = t THEN [transfer_cache[i] EXCEPT !.transferred_size = n]
                   ELSE transfer_cache[i]]
        /\ UNCHANGED <<storeFrame, cache_dir>>

\* TransferManager::mark_completed(id): the statement, then cache.remove
MarkCompleted ==
    \E t \in TransferIds :
        /\ db' = set_status(db, t, "completed")
        /\ transfer_cache' = [i \in DOMAIN transfer_cache \ {t} |-> transfer_cache[i]]
        /\ UNCHANGED <<storeFrame, cache_dir>>

\* TransferManager::mark_failed(id): the statement, then the cached status
MarkFailed ==
    \E t \in TransferIds :
        /\ db' = set_status(db, t, "failed")
        /\ transfer_cache' =
               [i \in DOMAIN transfer_cache |->
                   IF i = t THEN [transfer_cache[i] EXCEPT !.status = "failed"]
                   ELSE transfer_cache[i]]
        /\ UNCHANGED <<storeFrame, cache_dir>>

NextTransfer ==
    \/ CreateJob
    \/ BeginTransfer
    \/ ResaveTransfer
    \/ UpdateProgress
    \/ MarkCompleted
    \/ MarkFailed

SpecTransfer == InitJobs /\ [][NextTransfer]_vars

(***************************************************************************)
(* SpecWebDav: concurrent writes on one WebDavStorage                      *)
(***************************************************************************)

\* MAX_DIR_CACHE_SIZE (10000), scaled to the model's directories
MAX_DIR_CACHE_SIZE == 3

\* bound: the directories above a written file
MaxDepth == 2

\* the names of directories
DirNames == {"a", "b"}

\* the paths write and write_stream are called with: directories, then the
\* file's name
FilePaths ==
    {Append(ds, "f") : ds \in UNION {[1..n -> DirNames] : n \in 0..MaxDepth}}

\* Path::parent: the path without its last component
parent(file_path) == SubSeq(file_path, 1, Len(file_path) - 1)

\* ensure_parent_dirs under the read lock: of "p1/", "p1/p2/", ... those the
\* cache does not contain, in this order
missing_dirs(cache, parts) ==
    SelectSeq([k \in 1..Len(parts) |-> SubSeq(parts, 1, k)],
              LAMBDA dir : dir \notin cache)

\* ensure_parent_dirs under the write lock: the cache is cleared when it
\* holds MAX_DIR_CACHE_SIZE entries or more, then every directory of the
\* list that it does not contain is created and inserted
insert_dirs(cache, dirs_to_create) ==
    (IF Cardinality(cache) >= MAX_DIR_CACHE_SIZE THEN {} ELSE cache)
        \cup {dirs_to_create[k] : k \in DOMAIN dirs_to_create}

\* what a call of ensure_parent_dirs leaves alone
webdavFrame == <<cmpVars, cacheVars, compared, actions, pc, source_store,
                 dest_store, file_states, file_states_start, execVars,
                 cancelled, report, history, temp_files,
                 max_concurrent_transfers, conflict_resolutions, conflicts,
                 clock, storage_type, config_json, remote_cache_ttl, storage_errors,
                 force_refresh, progressVars, storeVars, commandVars,
                 fileVars>>

\* write(path) calls ensure_parent_dirs: the part under the read lock; the
\* call returns here when the file has no parent or nothing is missing
EnsureRead(w) ==
    /\ writers[w].st = "idle"
    /\ \E file_path \in FilePaths :
          LET dirs == missing_dirs(created_dirs, parent(file_path))
          IN  writers' = [writers EXCEPT ![w] =
                             IF dirs = <<>> THEN @
                             ELSE [st |-> "write", dirs_to_create |-> dirs]]
    /\ UNCHANGED <<webdavFrame, created_dirs>>

\* ensure_parent_dirs: the part under the write lock, and the return
EnsureWrite(w) ==
    /\ writers[w].st = "write"
    /\ created_dirs' = insert_dirs(created_dirs, writers[w].dirs_to_create)
    /\ writers' = [writers EXCEPT ![w] = [st |-> "idle", dirs_to_create |-> <<>>]]
    /\ UNCHANGED webdavFrame

NextWebDav ==
    \E w \in WriterIds :
        \/ EnsureRead(w)
        \/ EnsureWrite(w)

SpecWebDav == InitJobs /\ [][NextWebDav]_vars

(***************************************************************************)
(* Claims about compare_trees (checked under SpecCompare)                  *)
(***************************************************************************)

Compared == pc = "compared"

\* the indexes of the returned actions that name path p
ActionsAt(p) == {i \in DOMAIN compared : ActionPath(compared[i]) = p}

BothPresent(p) == p \in DOMAIN source_tree /\ p \in DOMAIN dest_tree
BothDirs(p) == BothPresent(p) /\ source_tree[p].is_dir /\ dest_tree[p].is_dir
BothFiles(p) == BothPresent(p) /\ ~source_tree[p].is_dir /\ ~dest_tree[p].is_dir
OnlySource(p) == p \in DOMAIN source_tree /\ p \notin DOMAIN dest_tree
OnlyDest(p) == p \in DOMAIN dest_tree /\ p \notin DOMAIN source_tree
OneSidedDir(p) ==
    \/ OnlySource(p) /\ source_tree[p].is_dir
    \/ OnlyDest(p) /\ dest_tree[p].is_dir

\* C2: compare_trees is deterministic: whatever order the set of paths is
\* iterated in, the returned action list is the same, in the same order.
C2_Deterministic ==
    Compared =>
        \A order \in IterationOrders(AllPaths(source_tree, dest_tree)) :
            compare_trees(compare_config, source_tree, dest_tree, syncMode,
                          order) = compared

\* C2 witness: two actions of the same kind were returned, so that only the
\* path part of the sort key orders them
C2_Witness ==
    /\ Compared
    /\ Len(compared) = 2
    /\ compared[1].type = compared[2].type

\* C3 as stated: exactly one action per path of the union, a path that is a
\* directory on both sides being the only one omitted.
C3_Original ==
    Compared =>
        /\ \A p \in AllPaths(source_tree, dest_tree) :
              Cardinality(ActionsAt(p)) = IF BothDirs(p) THEN 0 ELSE 1
        /\ \A i \in DOMAIN compared :
              ActionPath(compared[i]) \in AllPaths(source_tree, dest_tree)

\* C3 amended: exactly one action per path of the union, except a path that
\* is a directory on both sides or a directory on the only side that has it,
\* which is omitted; no action for a path outside the union.
C3_OneActionPerPath ==
    Compared =>
        /\ \A p \in AllPaths(source_tree, dest_tree) :
              Cardinality(ActionsAt(p)) =
                  IF BothDirs(p) \/ OneSidedDir(p) THEN 0 ELSE 1
        /\ \A i \in DOMAIN compared :
              ActionPath(compared[i]) \in AllPaths(source_tree, dest_tree)

\* C3 witness: a one-sided directory was omitted beside a path with an action
C3_Witness ==
    /\ Compared
    /\ \E p \in AllPaths(source_tree, dest_tree) : OneSidedDir(p)
    /\ Len(compared) = 1

ChecksumsDiffer(p) ==
    /\ BothFiles(p)
    /\ source_tree[p].checksum # None
    /\ dest_tree[p].checksum # None
    /\ source_tree[p].checksum # dest_tree[p].checksum

\* C4 as stated: with the comparator the engine uses (FileComparator::default)
\* a file on both sides whose checksums are present and differ gets a Copy or
\* a Conflict, never a Skip.
C4_Original ==
    (Compared /\ compare_config = FileComparatorDefault) =>
        \A p \in Paths : ChecksumsDiffer(p) =>
            \A i \in ActionsAt(p) : compared[i].type \in {"Copy", "Conflict"}

\* C4 amended: a comparator with use_checksum enabled gives such a path a
\* Copy or a Conflict and never a Skip, in every mode and also when the sizes
\* are equal; the comparator the engine uses (use_checksum = false) does not
\* read the checksums and gives the path a Skip exactly when the sizes are
\* equal.
C4_ChecksumsDecideWhenEnabled ==
    Compared =>
        \A p \in Paths : ChecksumsDiffer(p) =>
            /\ Cardinality(ActionsAt(p)) = 1
            /\ \A i \in ActionsAt(p) :
                  /\ compare_config.use_checksum =>
                        compared[i].type \in {"Copy", "Conflict"}
                  /\ compare_config = FileComparatorDefault =>
                        (compared[i].type = "Skip"
                            <=> source_tree[p].size = dest_tree[p].size)

\* C4 witness: checksums enabled, the checksums differ and the sizes are equal
C4_Witness ==
    /\ Compared
    /\ compare_config.use_checksum
    /\ \E p \in Paths :
          /\ ChecksumsDiffer(p)
          /\ source_tree[p].size = dest_tree[p].size
          /\ ActionsAt(p) # {}

\* C5: a reverse Copy is emitted only in Bidirectional mode; in Mirror and
\* Backup every Copy has reverse = false, every Delete has from_dest = true,
\* and a path on both sides whose relation is not Equal (nor ProbablyEqual)
\* yields Copy(source -> dest), never a Conflict.
C5_OneWayModesNeverTouchSource ==
    Compared =>
        /\ \A i \in DOMAIN compared :
              (compared[i].type = "Copy" /\ compared[i].reverse)
                  => syncMode = "Bidirectional"
        /\ syncMode \in {"Mirror", "Backup"} =>
              /\ \A i \in DOMAIN compared :
                    /\ compared[i].type = "Copy" => ~compared[i].reverse
                    /\ compared[i].type = "Delete" => compared[i].from_dest
                    /\ compared[i].type # "Conflict"
              /\ \A p \in Paths :
                    ( /\ BothPresent(p) /\ ~BothDirs(p)
                      /\ compare_files(compare_config, source_tree[p], dest_tree[p])
                            \notin {"Equal", "ProbablyEqual"} )
                    => \A i \in ActionsAt(p) :
                          compared[i] = Copy(p, source_tree[p].size, FALSE)

\* C5 witness: Mirror or Backup, and the destination's file is the newer one
C5_Witness ==
    /\ Compared
    /\ syncMode \in {"Mirror", "Backup"}
    /\ \E p \in Paths :
          /\ BothFiles(p)
          /\ compare_files(compare_config, source_tree[p], dest_tree[p]) = "DestNewer"
          /\ ActionsAt(p) # {}

\* C6: a file present only in the destination yields Delete{from_dest} in
\* Mirror, a reverse Copy of the destination's size in Bidirectional and Skip
\* in Backup; Backup never emits a Delete.
C6_DestOnly ==
    Compared =>
        /\ \A p \in Paths : (OnlyDest(p) /\ ~dest_tree[p].is_dir) =>
              /\ Cardinality(ActionsAt(p)) = 1
              /\ \A i \in ActionsAt(p) :
                    compared[i] =
                        CASE syncMode = "Mirror" -> Delete(p, TRUE)
                          [] syncMode = "Bidirectional" ->
                                Copy(p, dest_tree[p].size, TRUE)
                          [] syncMode = "Backup" -> Skip(p)
        /\ syncMode = "Backup" =>
              \A i \in DOMAIN compared : compared[i].type # "Delete"

\* C6 witness: Backup mode with a file only the destination has
C6_Witness ==
    /\ Compared
    /\ syncMode = "Backup"
    /\ \E p \in Paths :
          OnlyDest(p) /\ ~dest_tree[p].is_dir /\ ActionsAt(p) # {}

\* the kind order the claim states
KindOrder(a) ==
    CASE a.type = "Copy" -> 0
      [] a.type = "Conflict" -> 1
      [] a.type = "Delete" -> 2
      [] a.type = "Skip" -> 3

\* C7: the returned list is sorted by (kind order, path), Copy < Conflict <
\* Delete < Skip: for consecutive a, b either order(a) < order(b), or the
\* orders are equal and path(a) <= path(b).
C7_Sorted ==
    Compared =>
        \A i \in 1..(Len(compared) - 1) :
            \/ KindOrder(compared[i]) < KindOrder(compared[i + 1])
            \/ /\ KindOrder(compared[i]) = KindOrder(compared[i + 1])
               /\ PathLeq(ActionPath(compared[i]), ActionPath(compared[i + 1]))

\* C7 witness: a Skip follows a Copy in the returned list
C7_Witness ==
    /\ Compared
    /\ Len(compared) = 2
    /\ compared[1].type = "Copy"
    /\ compared[2].type = "Skip"

(***************************************************************************)
(* Claims about the engine run (checked under Spec)                        *)
(***************************************************************************)

Returned == pc = "done"

\* the tasks whose action completed successfully
Succeeded(i) == tasks[i].outcome = "ok"

\* C1: the hash-skip step rewrites a Copy to Skip only when the destination
\* tree contains the path: a Copy(source -> dest) whose path is absent from
\* the destination tree remains a Copy, also when the saved FileState has the
\* same size and the checksum of the source bytes.
C1_HashSkipKeepsCopyOfAbsentDest ==
    /\ Len(actions) = Len(compared)
    /\ \A i \in DOMAIN compared :
          ( /\ IsForwardCopy(compared[i])
            /\ compared[i].source_path \notin DOMAIN dest_tree )
          => actions[i] = compared[i]

\* the row of path p in a file_states table, None when there is none
RowOf(table, p) == IF p \in DOMAIN table THEN Some(table[p]) ELSE None

\* C8: a FileState for a path is produced (collected for the batch, or
\* written to the store) only if a non-reverse Copy of that path completed
\* successfully in this run; failed and cancelled actions, reverse Copies,
\* Deletes and Conflicts leave the store unchanged for their path.
C8_FileStateOnlyAfterSuccessfulCopy ==
    LET copied == {executable_actions[i].source_path : i \in
                      {j \in DOMAIN tasks :
                          Succeeded(j) /\ IsForwardCopy(executable_actions[j])}}
    IN  /\ \A k \in DOMAIN synced_states : synced_states[k].file_path \in copied
        /\ \A p \in StorePaths :
              RowOf(file_states, p) # RowOf(file_states_start, p) => p \in copied

\* C8 witness: the run returned; a forward Copy failed on all its attempts
\* and the store holds no new row for it, while another Copy's row was written
C8_Witness ==
    /\ Returned
    /\ \E i, j \in DOMAIN tasks :
          /\ tasks[i].outcome = "failed"
          /\ IsForwardCopy(executable_actions[i])
          /\ tasks[i].attempts = max_retries + 1
          /\ RowOf(file_states, executable_actions[i].source_path) = None
          /\ Succeeded(j)
          /\ IsForwardCopy(executable_actions[j])
          /\ RowOf(file_states, executable_actions[j].source_path) # None

RECURSIVE SuccessfulCopyBytes(_)
SuccessfulCopyBytes(n) ==
    IF n = 0 THEN 0
    ELSE SuccessfulCopyBytes(n - 1)
         + (IF Succeeded(n) /\ executable_actions[n].type = "Copy"
            THEN executable_actions[n].size ELSE 0)

\* C10: bytesTransferred of the final SyncReport equals the sum of the sizes
\* of the Copy actions that completed successfully, also in runs with failed
\* and retried attempts and in cancelled runs.
C10_BytesAreSuccessfulCopySizes ==
    (Returned /\ report # None) =>
        report[1].bytesTransferred = SuccessfulCopyBytes(Len(tasks))

\* the report run_sync returned came from execute_sync_parallel
ReachedSyncing == Returned /\ report # None /\ report[1].reachedSyncing

\* C11: every run cancelled through the cancellation flag (before scanning,
\* between phases or during Syncing) appends a history row with status
\* cancelled, and no FileState is written for a transfer that had not
\* completed when the run ended.
C11_CancelledRunLogsCancelledRow ==
    (Returned /\ report # None /\ report[1].status = "Cancelled") =>
        /\ \E k \in DOMAIN history : history[k].status = "cancelled"
        /\ \A p \in StorePaths :
              RowOf(file_states, p) # RowOf(file_states_start, p) =>
                  \E i \in DOMAIN tasks :
                      /\ Succeeded(i)
                      /\ executable_actions[i].type = "Copy"
                      /\ executable_actions[i].source_path = p

\* C12: every run that reaches a terminal state (Completed, Failed or
\* Cancelled, a fatal connect or scan failure and a cancellation before
\* Syncing included) appends exactly one history row for the job.
C12_OneHistoryRowPerRun ==
    Returned => Len(history) = 1

\* the tasks counted in files_failed
CountedFailed == {i \in DOMAIN tasks : tasks[i].outcome \in {"failed", "cancelled"}}

\* C13: the final report of a run that reached Syncing has status Failed if
\* and only if at least one action was counted failed; otherwise Cancelled
\* if and only if the cancellation flag is set when execution ends;
\* otherwise Completed.
C13_ReportStatus ==
    ReachedSyncing =>
        /\ report[1].filesFailed = Cardinality(CountedFailed)
        /\ report[1].status = "Failed" <=> CountedFailed # {}
        /\ CountedFailed = {} =>
              /\ report[1].status = "Cancelled" <=> cancelled
              /\ report[1].status = "Completed" <=> ~cancelled

\* C13 witness: a run that reached Syncing returned Cancelled: the flag was
\* set while actions were still to be spawned and nothing had failed
C13_Witness ==
    /\ ReachedSyncing
    /\ report[1].status = "Cancelled"
    /\ \E i, j \in DOMAIN tasks : Succeeded(i) /\ tasks[j].st = "none"

\* the tasks that hold a permit: executing an attempt or in backoff
Holding == {i \in DOMAIN tasks : tasks[i].st \in {"attempt", "sleeping"}}

Syncing == pc \in {"spawn_check", "spawn_acquire", "join"}

\* C17: at every moment of a run the number of action tasks that hold a
\* worker slot (executing, retrying or in backoff) is at most
\* max_concurrent_transfers, and exactly one task is created per non-Skip
\* action that is started: the tasks are those of the non-Skip actions, the
\* spawned ones are the actions the spawn loop has passed.
C17_BoundedWorkers ==
    /\ Cardinality(Holding) <= max_concurrent_transfers
    /\ Syncing => permits + Cardinality(Holding) = max_concurrent_transfers
    /\ DOMAIN tasks = DOMAIN executable_actions
    /\ (Syncing \/ ReachedSyncing) =>
          /\ executable_actions = FilterExecutable(actions)
          /\ Len(executable_actions)
                = Cardinality({k \in DOMAIN actions : actions[k].type # "Skip"})
          /\ \A i \in DOMAIN tasks : tasks[i].st # "none" <=> i < next_action

\* C17 witness: every slot is taken, one of them by a task in backoff, and
\* the spawn loop waits for a permit with an action still to start
C17_Witness ==
    /\ pc = "spawn_acquire"
    /\ permits = 0
    /\ Cardinality(Holding) = max_concurrent_transfers
    /\ \E i \in Holding : tasks[i].st = "sleeping"
    /\ tasks[next_action].st = "none"

\* C18: once the cancellation flag is set during Syncing, no action that has
\* not begun an attempt performs a storage operation and a task in backoff
\* makes no further attempt: no step changes a storage or starts a call of
\* execute_action, and a task without an outcome stays unspawned or ends
\* with the cancelled error.
C18_CancellationStopsNewWork ==
    [][(cancelled /\ Syncing) =>
          /\ source_store' = source_store
          /\ dest_store' = dest_store
          /\ \A i \in DOMAIN tasks :
                /\ tasks'[i].attempts = tasks[i].attempts
                /\ tasks[i].outcome = "none" =>
                      tasks'[i].outcome \in {"none", "cancelled"}
                /\ tasks'[i].outcome = "cancelled" =>
                      tasks'[i].st = "done"]_vars

\* C18 witness: the run returned after a cancellation during Syncing; one
\* task was cancelled after a failed attempt (in or after its backoff) and
\* one action was never spawned
C18_Witness ==
    /\ ReachedSyncing
    /\ cancelled
    /\ \E i, j \in DOMAIN tasks :
          /\ tasks[i].outcome = "cancelled"
          /\ tasks[i].attempts >= 1
          /\ tasks[j].st = "none"

\* C20: the temp file of a streamed copy is removed on every exit path:
\* whenever no streamed copy is executing, no temp file exists, whether the
\* attempts ended with success, a range-read error, a temp-file write error
\* or a write_stream error.  (An attempt is one step of the model, so no
\* state lies inside a streamed copy.)
C20_NoTempFileLeft ==
    temp_files = 0

\* C19: when a Conflict action is executed and its path is in the run's
\* conflict_resolutions, the action is rewritten according to the choice
\* before execution (a conflict resolved as skip is not executed and not
\* counted failed); otherwise the conflict is recorded in the conflict
\* registry and the action is counted failed.
C19_ConflictResolved ==
    \A i \in DOMAIN tasks :
        (executable_actions[i].type = "Conflict" /\ tasks[i].st = "done"
            /\ tasks[i].attempts > 0) =>
            LET p == executable_actions[i].path IN
            IF p \in DOMAIN conflict_resolutions
            THEN conflict_resolutions[p] = "skip" => tasks[i].outcome # "failed"
            ELSE tasks[i].outcome = "failed" /\ p \in conflicts

\* C16: after a run in which at least one Copy or Delete completed, neither
\* the source nor the dest cache entry of the job exists when run_sync
\* returns, so the next run or analysis scans both sides again.
C16_CachesClearedAfterChange ==
    (Returned /\ \E i \in DOMAIN tasks :
                    /\ Succeeded(i)
                    /\ executable_actions[i].type \in {"Copy", "Delete"}) =>
        /\ \A k \in Sides : cache_files[k] = None
        /\ scan_side("source", source_store, FALSE).origin = "scan"
        /\ scan_side("dest", dest_store, FALSE).origin = "scan"

\* C16 witness: the run saved an entry for each side when it scanned, one
\* action completed and another failed, and the run returned
C16_Witness ==
    /\ ReachedSyncing
    /\ \A k \in Sides : tree_origin[k] = "scan"
    /\ \E i, j \in DOMAIN tasks :
          /\ Succeeded(i)
          /\ executable_actions[i].type = "Delete"
          /\ tasks[j].outcome = "failed"

(***************************************************************************)
(* Claims about the file-list cache (checked under SpecCache)              *)
(***************************************************************************)

\* C14: a side whose storage type is Local is never cached: in run_sync and
\* in analyze_job its tree comes from a fresh scan of the storage, never
\* from a cache entry written by an earlier run or analysis.
C14_LocalSideNeverCached ==
    \A k \in Sides : storage_type[k] = "Local" => tree_origin[k] # "cache"

\* the trees a scan can have produced
SavedTrees == {scan_storage(st) : st \in CacheStores}

\* load at time `later` of what save wrote at time clock, under config c
LoadAfterSave(k, c, saved_as, tree, ttl, later) ==
    load(save(cache_files, k, saved_as, tree, clock), k, c, ttl, later)

\* C15 as stated: after save(job, side, config, tree), load with the same
\* config returns a tree equal to the saved one (whenever it is called, with
\* whatever TTL); load with a changed config returns None and removes the
\* cache file, so a following load with the original config returns None.
C15_Original ==
    \A k \in Sides, c \in ConfigJsons, tree \in SavedTrees,
       ttl \in 0..MaxTtl, later \in clock..MaxClock :
        /\ LoadAfterSave(k, c, c, tree, ttl, later).result # None
        /\ LoadAfterSave(k, c, c, tree, ttl, later).result[1].files = tree
        /\ \A c2 \in ConfigJsons \ {c} :
              LET changed == LoadAfterSave(k, c2, c, tree, ttl, later)
              IN  /\ changed.result = None
                  /\ changed.cache[k] = None
                  /\ load(changed.cache, k, c, ttl, later).result = None

\* C15, amended: load with the same config returns the saved tree as long as
\* the entry has not expired (TTL 0, or at most TTL seconds since the save)
\* and leaves the file in place; an expired entry yields None and is
\* removed; load with a changed config returns None and removes the file,
\* so a following load with the original config returns None.
C15_RoundTripUntilExpiry ==
    \A k \in Sides, c \in ConfigJsons, tree \in SavedTrees,
       ttl \in 0..MaxTtl, later \in clock..MaxClock :
        LET saved == save(cache_files, k, c, tree, clock)
            same == LoadAfterSave(k, c, c, tree, ttl, later)
        IN  /\ (ttl = 0 \/ later - clock <= ttl) =>
                  /\ same.result = Some([files |-> tree, cached_at |-> clock])
                  /\ same.cache = saved
            /\ (ttl > 0 /\ later - clock > ttl) =>
                  /\ same.result = None
                  /\ same.cache[k] = None
            /\ \A c2 \in ConfigJsons \ {c} :
                  LET changed == LoadAfterSave(k, c2, c, tree, ttl, later)
                  IN  /\ changed.result = None
                      /\ changed.cache[k] = None
                      /\ load(changed.cache, k, c, ttl, later).result = None

\* C15 witness: an analysis or a run loaded, a second later and within the
\* TTL of a remote side, the tree an earlier scan had saved under the same
\* configuration, and another side's entry was dropped for a changed one
C15_Witness ==
    /\ storage_type["source"] = "S3"
    /\ remote_cache_ttl > 0
    /\ tree_origin["source"] = "cache"
    /\ cache_files["source"] # None
    /\ clock > cache_files["source"][1].cached_at
    /\ source_tree = cache_files["source"][1].files
    /\ config_json["dest"] = "config2"
    /\ tree_origin["dest"] = "scan"
    /\ cache_files["dest"] # None
    /\ cache_files["dest"][1].config_hash = hash_config("config2")
    /\ cache_files["dest"][1].cached_at > cache_files["source"][1].cached_at

(***************************************************************************)
(* Claims about the progress channel (checked under SpecProgress)          *)
(***************************************************************************)

\* C21: publishing progress never blocks the producer: whenever run_sync
\* stands at a call of send_progress its send can complete, and whenever the
\* ticker has loaded the counters its send can complete, whatever the channel
\* holds
C21_SendNeverBlocks ==
    /\ pc \in SendPoints => ENABLED EngineSend
    /\ progress_handle.st = "woken" => ENABLED TickerSend

StatusRank(status) ==
    CASE status = "Idle" -> 0
      [] status = "Scanning" -> 1
      [] status = "Comparing" -> 2
      [] status = "Syncing" -> 3
      [] OTHER -> 4

TerminalStatus(status) == status \in {"Completed", "Failed", "Cancelled"}

\* C22: the statuses sent on the channel during a run never move backwards
\* and nothing is sent after an update with a terminal status
C22_StatusOrder ==
    \A i, j \in DOMAIN progress_sent :
        i < j => /\ StatusRank(progress_sent[i].status)
                        <= StatusRank(progress_sent[j].status)
                 /\ ~TerminalStatus(progress_sent[i].status)

(***************************************************************************)
(* Claims about the stores (checked under SpecJobs)                        *)
(***************************************************************************)

\* the rows of a job in the child tables of a database
RowsOf(d, id) ==
    [file_states |-> {r \in d.file_states : r.job_id = id},
     transfer_states |-> {r \in d.transfer_states : r.job_id = id},
     sync_logs |-> {r \in d.sync_logs : r.job_id = id},
     conflicts |-> {r \in d.conflicts : r.job_id = id}]

NoRows == [file_states |-> {}, transfer_states |-> {}, sync_logs |-> {},
           conflicts |-> {}]

CacheFilesOf(dir, id) == {f \in dir : f[1] = id}

\* C23: a step that removes the row of a job from sync_jobs (delete_job)
\* leaves no row of the child tables and no cache file for that id, and
\* leaves the job row, the rows and the cache files of every other job as
\* they were
C23_DeleteJobRemovesEverything ==
    [][\A id \in JobIds :
          (JobExists(id) /\ ~(\E r \in db'.sync_jobs : r.id = id)) =>
              /\ RowsOf(db', id) = NoRows
              /\ CacheFilesOf(cache_dir', id) = {}
              /\ \A o \in JobIds \ {id} :
                    /\ JobExists(o) <=> \E r \in db'.sync_jobs : r.id = o
                    /\ RowsOf(db', o) = RowsOf(db, o)
                    /\ CacheFilesOf(cache_dir', o) = CacheFilesOf(cache_dir, o)]_vars

\* C30: in every state of the database, cleanup_missing(job, existingPaths)
\* leaves of the job's file_states rows exactly those whose path is in
\* existingPaths, the empty list included, and leaves the rows of the other
\* jobs and the other tables as they are
C30_CleanupKeepsExactlyExisting ==
    \A id \in JobIds, existing_paths \in SUBSET StorePaths :
        LET after == cleanup_missing(db, id, existing_paths)
        IN  /\ {r \in after.file_states : r.job_id = id}
                  = {r \in db.file_states :
                        r.job_id = id /\ r.file_path \in existing_paths}
            /\ {r \in after.file_states : r.job_id # id}
                  = {r \in db.file_states : r.job_id # id}
            /\ [after EXCEPT !.file_states = {}] = [db EXCEPT !.file_states = {}]

(***************************************************************************)
(* Claims about the transfer states                                        *)
(***************************************************************************)

\* the tasks of the run whose action is a Copy above the stream threshold and
\* whose execute_action was called at least once
StreamedTasks ==
    {i \in DOMAIN tasks :
        /\ executable_actions[i].type = "Copy"
        /\ executable_actions[i].size > DEFAULT_STREAM_THRESHOLD
        /\ tasks[i].attempts >= 1}

\* the TransferState rows of the run's job for the file of task i
TransferRowsOf(i) ==
    {r \in db.transfer_states :
        /\ r.job_id = RunJobId
        /\ r.file_path = executable_actions[i].source_path}

\* C24 (under Spec): every streamed transfer that began has a TransferState
\* row, which is completed when the transfer succeeded and failed when it
\* failed, and get_pending_transfers(job) lists exactly the files of the
\* streamed transfers that began and have neither completed nor failed
C24_StreamedTransfersTracked ==
    /\ \A i \in StreamedTasks :
          \E r \in TransferRowsOf(i) :
              /\ tasks[i].outcome = "ok" => r.status = "completed"
              /\ tasks[i].outcome = "failed" => r.status = "failed"
    /\ {r.file_path : r \in get_pending_transfers(db, RunJobId)}
           = {executable_actions[i].source_path :
                  i \in {j \in StreamedTasks : tasks[j].st # "done"}}

\* every TransferState the manager holds: the rows of the table and the
\* states of its cache
TransferStatesIn(d, cache) ==
    d.transfer_states \cup {cache[i] : i \in DOMAIN cache}

\* C25 (under SpecTransfer): whatever call is made on the TransferManager,
\* afterwards every TransferState has transferred_size <= total_size, and the
\* transferred_size of a row that was there before is not smaller than it was
C25_TransferredSizeBounded ==
    [][/\ \A r \in TransferStatesIn(db, transfer_cache)' :
             r.transferred_size <= r.total_size
       /\ \A r \in db.transfer_states, q \in db'.transfer_states :
             r.id = q.id => r.transferred_size <= q.transferred_size]_vars

(***************************************************************************)
(* Claims about the retries and the counting of tasks (under SpecRetry)    *)
(***************************************************************************)

\* the tasks that a step ends with an error
EndFailedInStep ==
    {i \in DOMAIN tasks \cap DOMAIN tasks' :
        tasks[i].outcome = "none" /\ tasks'[i].outcome \in {"failed", "cancelled"}}

RetryableErrors == {"Transient", "Timeout"}

\* C27: only Transient and Timeout errors are retried: no task is in backoff
\* after another error, and a task whose attempt failed with a ConfigInvalid
\* or PermissionDenied error or with an unresolved Conflict has ended failed
\* with that error in the error list.
C27_OnlyTransientErrorsRetried ==
    \A i \in DOMAIN tasks :
        (tasks[i].last_error # None /\ tasks[i].last_error[1] \notin RetryableErrors) =>
            /\ tasks[i].st = "done"
            /\ tasks[i].outcome = "failed"
            /\ \E k \in DOMAIN errors :
                  errors[k] = <<ActionPath(executable_actions[i]),
                                tasks[i].last_error[1]>>

\* the tasks that end in a step
EndInStep ==
    {i \in DOMAIN tasks \cap DOMAIN tasks' :
        tasks[i].st # "done" /\ tasks'[i].st = "done"}

\* the tasks that were spawned
Spawned == {i \in DOMAIN tasks : tasks[i].st # "none"}

\* C28: the step that ends a spawned task adds one to exactly one of
\* files_completed and files_failed, pushes one error line if and only if
\* the task failed, and releases the task's permit; no other step changes the
\* two counters or the error list; and in the report of a run that executed
\* its actions filesCopied + filesDeleted + filesFailed is the number of
\* tasks spawned and the error list has filesFailed lines.
C28_EachTaskCountedOnce ==
    [][/\ DOMAIN tasks = DOMAIN tasks' =>
             /\ Cardinality(EndInStep) <= 1
             /\ \A i \in EndInStep :
                   /\ permits' = permits + 1
                   /\ IF tasks'[i].outcome = "ok"
                      THEN /\ stats'.files_completed = stats.files_completed + 1
                           /\ stats'.files_failed = stats.files_failed
                           /\ errors' = errors
                      ELSE /\ stats'.files_completed = stats.files_completed
                           /\ stats'.files_failed = stats.files_failed + 1
                           /\ Len(errors') = Len(errors) + 1
             /\ EndInStep = {} =>
                   /\ stats'.files_completed = stats.files_completed
                   /\ stats'.files_failed = stats.files_failed
                   /\ errors' = errors
       /\ ReachedSyncing' =>
             /\ report'[1].filesCopied + report'[1].filesDeleted
                   + report'[1].filesFailed = Cardinality(Spawned')
             /\ Len(report'[1].errors) = report'[1].filesFailed
             /\ permits' = max_concurrent_transfers]_vars

\* C28 witness: the report of a run in which one task succeeded, one failed
\* after its retries and so two were spawned
C28_Witness ==
    /\ ReachedSyncing
    /\ Cardinality(Spawned) = 2
    /\ report[1].filesFailed = 1
    /\ Len(report[1].errors) = 1
    /\ \E i \in DOMAIN tasks : Succeeded(i)

(***************************************************************************)
(* Claims about the WebDAV directory cache (checked under SpecWebDav)      *)
(***************************************************************************)

\* C29: after every call of ensure_parent_dirs, whatever the depth of the
\* paths and the interleaving of the calls, created_dirs holds at most
\* MAX_DIR_CACHE_SIZE entries
C29_CreatedDirsCapped ==
    Cardinality(created_dirs) <= MAX_DIR_CACHE_SIZE

(***************************************************************************)
(* Claims about the report's counters (checked under Spec)                 *)
(***************************************************************************)

\* the tasks of the given kind of action that completed successfully
SucceededOf(type) ==
    {i \in DOMAIN tasks : Succeeded(i) /\ executable_actions[i].type = type}

\* C31: in the report and the history row of a run that executed its
\* actions, filesCopied is the number of Copy actions (forward and reverse)
\* that completed successfully and filesDeleted the number of Delete actions
\* that completed successfully
C31_CopiedAndDeletedCounts ==
    ReachedSyncing =>
        /\ report[1].filesCopied = Cardinality(SucceededOf("Copy"))
        /\ report[1].filesDeleted = Cardinality(SucceededOf("Delete"))
        /\ history[Len(history)].files_copied = Cardinality(SucceededOf("Copy"))
        /\ history[Len(history)].files_deleted = Cardinality(SucceededOf("Delete"))

(***************************************************************************)
(* Claims about the counters of the progress events (checked under         *)
(* SpecProgress)                                                           *)
(***************************************************************************)

\* C37: in every progress event sent during a run, filesCompleted and
\* filesFailed are at most filesToSync, also when the run has Conflict actions
C37_EventCountersBounded ==
    \A i \in DOMAIN progress_sent :
        /\ progress_sent[i].filesCompleted <= progress_sent[i].filesToSync
        /\ progress_sent[i].filesFailed <= progress_sent[i].filesToSync

(***************************************************************************)
(* The command layer: start_sync, cancel_sync and AppState::cleanup        *)
(* (SpecCancel). One job; every call of start_sync spawns a background     *)
(* task with an engine of its own.                                         *)
(***************************************************************************)

\* what the commands leave alone
commandFrame == <<cmpVars, cacheVars, compared, actions, pc, source_store,
                  dest_store, file_states, file_states_start, execVars,
                  cancelled, report, history, temp_files,
                  max_concurrent_transfers, conflict_resolutions, conflicts,
                  clock, storage_type, config_json, remote_cache_ttl,
                  storage_errors, force_refresh, progressVars, storeVars,
                  webdavVars, fileVars>>

\* HashMap::insert and HashMap::remove drop the sender they take out of the
\* map: the receiver of a dropped sender completes with an error
drop_sender(runs, entry) ==
    IF entry = None THEN runs
    ELSE [runs EXCEPT ![entry[1]].signal = "dropped"]

\* start_sync up to Ok(job_id): the one-shot channel is created, its sender
\* is inserted into cancel_signals under the job's id and the background
\* task is spawned
StartSync(r) ==
    /\ sync_runs[r].st = "none"
    /\ \A q \in RunIds : q < r => sync_runs[q].st # "none"
    /\ sync_runs' = [drop_sender(sync_runs, cancel_signals) EXCEPT
                        ![r].st = "spawned", ![r].signal = "open"]
    /\ cancel_signals' = Some(r)
    /\ UNCHANGED commandFrame

\* the background task to the call of run_sync: the engine is created and
\* the listener of the cancel signal is spawned
BackgroundStart(r) ==
    /\ sync_runs[r].st = "spawned"
    /\ sync_runs' = [sync_runs EXCEPT ![r].st = "listening",
                                      ![r].listener = "waiting"]
    /\ UNCHANGED <<commandFrame, cancel_signals>>

\* the listener: `let _ = cancel_rx.await; engine_for_cancel.cancel();`
\* the await ends when the sender sent and when the sender was dropped
ListenerFires(r) ==
    /\ sync_runs[r].listener = "waiting"
    /\ sync_runs[r].signal \in {"sent_cancel", "sent_cleanup", "dropped"}
    /\ sync_runs' = [sync_runs EXCEPT ![r].listener = "fired",
                                      ![r].cancelled = TRUE,
                                      ![r].flag_set_by = sync_runs[r].signal,
                                      ![r].fired_at = sync_runs[r].st]
    /\ UNCHANGED <<commandFrame, cancel_signals>>

\* run_sync, lines 192-193: self.cancelled.store(false)
RunSyncEnter(r) ==
    /\ sync_runs[r].st = "listening"
    /\ sync_runs' = [sync_runs EXCEPT ![r].st = "running",
                                      ![r].cancelled = FALSE]
    /\ UNCHANGED <<commandFrame, cancel_signals>>

\* run_sync's checks of the flag before execution: a set flag ends the run
\* with a Cancelled report
RunSyncCheck(r) ==
    /\ sync_runs[r].st = "running"
    /\ sync_runs' = IF sync_runs[r].cancelled
                    THEN [sync_runs EXCEPT ![r].st = "returned",
                                           ![r].status = "Cancelled"]
                    ELSE [sync_runs EXCEPT ![r].st = "executing"]
    /\ UNCHANGED <<commandFrame, cancel_signals>>

\* the actions were executed on storages that do not fail and the report is
\* built: a flag set in time makes tasks end with the cancelled error and
\* the run Failed, a flag set after them makes it Cancelled
RunSyncReturn(r) ==
    /\ sync_runs[r].st = "executing"
    /\ \E status \in IF sync_runs[r].cancelled THEN {"Failed", "Cancelled"}
                      ELSE {"Completed"} :
          sync_runs' = [sync_runs EXCEPT ![r].st = "returned",
                                         ![r].status = status]
    /\ UNCHANGED <<commandFrame, cancel_signals>>

\* the background task after run_sync: cancel_handle.abort() and
\* cancel_signals.remove(job_id), whichever run the entry belongs to
BackgroundEnd(r) ==
    /\ sync_runs[r].st = "returned"
    /\ sync_runs' =
          [drop_sender(sync_runs, cancel_signals) EXCEPT
              ![r].st = "done",
              ![r].listener = IF @ = "waiting" THEN "aborted" ELSE @]
    /\ cancel_signals' = None
    /\ UNCHANGED commandFrame

\* cancel_sync with an entry for the job: the sender is removed and sends;
\* Ok(()). Without an entry it returns Err and changes nothing
CancelSync ==
    /\ cancel_signals # None
    /\ sync_runs' = [sync_runs EXCEPT
                        ![cancel_signals[1]].signal = "sent_cancel",
                        ![cancel_signals[1]].cancel_ok_at =
                            sync_runs[cancel_signals[1]].st]
    /\ cancel_signals' = None
    /\ UNCHANGED commandFrame

\* AppState::cleanup: cancel_signals is drained and every sender sends
Cleanup ==
    /\ cancel_signals # None
    /\ sync_runs' = [sync_runs EXCEPT
                        ![cancel_signals[1]].signal = "sent_cleanup"]
    /\ cancel_signals' = None
    /\ UNCHANGED commandFrame

NextCancel ==
    \/ \E r \in RunIds : StartSync(r)
    \/ \E r \in RunIds : BackgroundStart(r)
    \/ \E r \in RunIds : ListenerFires(r)
    \/ \E r \in RunIds : RunSyncEnter(r)
    \/ \E r \in RunIds : RunSyncCheck(r)
    \/ \E r \in RunIds : RunSyncReturn(r)
    \/ \E r \in RunIds : BackgroundEnd(r)
    \/ CancelSync
    \/ Cleanup

SpecCancel == InitJobs /\ [][NextCancel]_vars

\* C32: a cancellation is never lost: when cancel_sync returned Ok for a run
\* before the run looked at its flag for the first time (also before the
\* background task entered run_sync) and the listener set the flag before
\* that look, the run does not end with status Completed
C32_CancellationNotLost ==
    \A r \in RunIds :
        /\ sync_runs[r].cancel_ok_at \in {"spawned", "listening", "running"}
        /\ sync_runs[r].fired_at \in {"listening", "running"}
        => sync_runs[r].status # "Completed"

\* a run between start_sync's return and the end of its background task
InProgress(r) == sync_runs[r].st \notin {"none", "done"}

\* C33: the flag of a run is set only because cancel_sync or cleanup sent on
\* its sender, and while a run is in progress and nothing was sent to it,
\* cancel_signals holds its sender, so that cancel_sync reaches it
C33_OnlyCancelAndCleanupCancel ==
    \A r \in RunIds :
        /\ sync_runs[r].flag_set_by \in {"none", "sent_cancel", "sent_cleanup"}
        /\ InProgress(r) /\ sync_runs[r].signal \notin {"sent_cancel",
                                                        "sent_cleanup"}
           => cancel_signals = Some(r)

(***************************************************************************)
(* Claims about the checksum of a streamed copy (checked under Spec)       *)
(***************************************************************************)

\* the tasks that copied a file above the stream threshold from the source
\* to the destination and returned Ok
StreamedForward ==
    {i \in DOMAIN tasks :
        /\ Succeeded(i)
        /\ IsForwardCopy(executable_actions[i])
        /\ executable_actions[i].size > DEFAULT_STREAM_THRESHOLD}

\* C34: the checksum a successful streamed copy leaves in its FileState is
\* the quick hash of the source's bytes, the value the hash-skip step of the
\* next run compares it with
C34_StreamChecksumIsQuickHash ==
    \A i \in StreamedForward :
        \A k \in DOMAIN synced_states :
            /\ synced_states[k].file_path = executable_actions[i].source_path
            /\ executable_actions[i].source_path \in DOMAIN source_store
            => hash_matches(synced_states[k].row,
                            source_store[executable_actions[i].source_path])

(***************************************************************************)
(* Phase 1 of a streamed copy: the range-read loop over a Local source     *)
(* (SpecStream)                                                            *)
(***************************************************************************)

\* what the operations on files leave alone
fileFrame == <<cmpVars, cacheVars, compared, actions, pc, source_store,
               dest_store, file_states, file_states_start, execVars,
               cancelled, report, history, temp_files,
               max_concurrent_transfers, conflict_resolutions, conflicts,
               clock, storage_type, config_json, remote_cache_ttl,
               storage_errors, force_refresh, progressVars, storeVars,
               webdavVars, commandVars>>

\* bound: the scanned size and the real length of the source file
MaxStreamSize == 3
\* bound: SyncConfig.chunk_size
MaxChunk == 2
\* bound: the range reads followed in one loop
MaxReads == 4

\* the bytes of a source file of n bytes
SourceBytes(n) == [k \in 1..n |-> k]

\* LocalStorage::read_range: seek to offset and read_exact of length bytes;
\* at an unexpected end of file the seek is repeated and read_to_end returns
\* what the file holds from offset on, which is nothing at or after its end
read_range(data, offset, length) ==
    IF offset + length <= Len(data) THEN Slice(data, offset, offset + length)
    ELSE IF offset < Len(data) THEN Slice(data, offset, Len(data))
    ELSE <<>>

\* execute_action, lines 1065-1067: the temp file and the hasher are created,
\* offset = 0; total_size is the size the scan saw, the source file may have
\* changed since
StreamBegin ==
    /\ stream_copy.st = "idle"
    /\ \E total \in 1..MaxStreamSize, chunk \in 1..MaxChunk,
          len \in 0..MaxStreamSize :
          stream_copy' = [st |-> "reading", total_size |-> total,
                          chunk_size |-> chunk, source_len |-> len,
                          offset |-> 0, reads |-> 0]
    /\ UNCHANGED <<fileFrame, local_files, local_writes, config_files,
                   config_saves>>

\* one iteration of `while offset < total_size`: read_range of
\* min(total_size - offset, chunk_size) bytes, hasher.update, write_all,
\* offset += chunk.len(); then the loop's test
RangeRead ==
    /\ stream_copy.st = "reading"
    /\ stream_copy.reads < MaxReads
    /\ LET chunk_len == Min(stream_copy.total_size - stream_copy.offset,
                            stream_copy.chunk_size)
           chunk == read_range(SourceBytes(stream_copy.source_len),
                               stream_copy.offset, chunk_len)
           offset == stream_copy.offset + Len(chunk)
       IN  stream_copy' = [stream_copy EXCEPT
                              !.offset = offset,
                              !.reads = @ + 1,
                              !.st = IF offset < stream_copy.total_size
                                     THEN "reading" ELSE "flushed"]
    /\ UNCHANGED <<fileFrame, local_files, local_writes, config_files,
                   config_saves>>

\* read_range or write_all returned an error: `?` leaves the loop
RangeReadFails ==
    /\ stream_copy.st = "reading"
    /\ stream_copy.reads < MaxReads
    /\ stream_copy' = [stream_copy EXCEPT !.reads = @ + 1, !.st = "failed"]
    /\ UNCHANGED <<fileFrame, local_files, local_writes, config_files,
                   config_saves>>

NextStream ==
    \/ StreamBegin
    \/ RangeRead
    \/ RangeReadFails

SpecStream == InitJobs /\ [][NextStream]_vars

\* C36: the range-read loop terminates: every range read either moves
\* offset towards total_size or ends the loop with an error, so that the
\* loop ends after at most total_size reads, also when the source holds
\* fewer bytes than the scanned size
C36_EveryRangeReadAdvances ==
    [][stream_copy.st = "reading" /\ stream_copy'.reads = stream_copy.reads + 1
          => \/ stream_copy'.offset > stream_copy.offset
             \/ stream_copy'.st = "failed"]_vars

(***************************************************************************)
(* LocalStorage::write (SpecLocal)                                         *)
(***************************************************************************)

\* Path::with_extension on a path <<file stem, extension>>
with_extension(path, extension) == <<path[1], extension>>

\* the destination paths the writes are made to
WritePaths == {<<"a", "txt">>, <<"a", "bin">>, <<"b", "txt">>, <<"c", "txt">>}

\* a directory with file `path` holding `data`
WithFile(files, path, data) ==
    [p \in DOMAIN files \cup {path} |-> IF p = path THEN data ELSE files[p]]

\* a directory without file `path`
WithoutFile(files, path) == [p \in DOMAIN files \ {path} |-> files[p]]

\* a directory without the files `paths`
WithoutFiles(files, paths) == [p \in DOMAIN files \ paths |-> files[p]]

\* write(path, data) is called while no other call writes to the same path
WriteBegin(w) ==
    /\ local_writes[w].st = "idle"
    /\ \E path \in WritePaths :
          /\ \A v \in WriteIds : local_writes[v].path # path
          /\ local_writes' = [local_writes EXCEPT
                                 ![w] = [st |-> "called", path |-> path,
                                         data |-> w, result |-> "none"]]
    /\ UNCHANGED <<fileFrame, local_files, stream_copy, config_files,
                   config_saves>>

\* fs::write(&temp_path, data) with temp_path = full_path.with_extension("tmp")
WriteTemp(w) ==
    /\ local_writes[w].st = "called"
    /\ local_files' = WithFile(local_files,
                               with_extension(local_writes[w].path, "tmp"),
                               local_writes[w].data)
    /\ local_writes' = [local_writes EXCEPT ![w].st = "temp_written"]
    /\ UNCHANGED <<fileFrame, stream_copy, config_files, config_saves>>

\* fs::rename(&temp_path, &full_path) and the return: the rename fails when
\* the temp file is not there
WriteRename(w) ==
    LET temp_path == with_extension(local_writes[w].path, "tmp")
    IN  /\ local_writes[w].st = "temp_written"
        /\ IF temp_path \in DOMAIN local_files
           THEN /\ local_files' = WithFile(WithoutFile(local_files, temp_path),
                                           local_writes[w].path,
                                           local_files[temp_path])
                /\ local_writes' = [local_writes EXCEPT
                                       ![w].st = "returned",
                                       ![w].result = "ok"]
           ELSE /\ local_files' = local_files
                /\ local_writes' = [local_writes EXCEPT
                                       ![w].st = "returned",
                                       ![w].result = "err"]
        /\ UNCHANGED <<fileFrame, stream_copy, config_files, config_saves>>

NextLocal ==
    \/ \E w \in WriteIds : WriteBegin(w)
    \/ \E w \in WriteIds : WriteTemp(w)
    \/ \E w \in WriteIds : WriteRename(w)

SpecLocal == InitJobs /\ [][NextLocal]_vars

\* the paths the calls were made with
WrittenPaths == {local_writes[w].path : w \in WriteIds}

\* C35: concurrent writes to distinct paths do not interfere: once the
\* calls have returned, each returned Ok, each path holds the bytes of its
\* call and every other file of the tree is as it was before the calls
C35_WritesDoNotInterfere ==
    (\A w \in WriteIds : local_writes[w].st = "returned") =>
        /\ \A w \in WriteIds :
              /\ local_writes[w].result = "ok"
              /\ local_writes[w].path \in DOMAIN local_files
              /\ local_files[local_writes[w].path] = local_writes[w].data
        /\ WithoutFiles(local_files, WrittenPaths)
              = WithoutFiles(LocalDirAtRest, WrittenPaths)

(***************************************************************************)
(* config.rs: save_config_section (SpecConfig). The commands                *)
(* set_cache_config and set_transfer_config are async commands and run on  *)
(* the threads of the runtime.                                             *)
(***************************************************************************)

\* bound: the calls of save_config_section for one section
MaxSaves == 2
\* the values a section is saved with
ConfigValues == 1..2

\* CONFIG_FILE_NAME and the temp file's name, format!("{}.tmp", ..)
CONFIG_FILE_NAME == "config.json"
ConfigTempName == "config.json.tmp"

\* save_config_section, lines 51-57: the parsed config.json, or {} without
\* the file
read_config(files) ==
    IF CONFIG_FILE_NAME \in DOMAIN files THEN files[CONFIG_FILE_NAME]
    ELSE <<>>

\* config[section] = value on a serde_json object
set_section(config, section, value) ==
    [k \in DOMAIN config \cup {section} |->
        IF k = section THEN value ELSE config[k]]

\* save_config_section, lines 44-62: config.json is read and parsed and the
\* section is set in the parsed value
SaveRead(section) ==
    /\ config_saves[section].st \in {"idle", "returned"}
    /\ config_saves[section].calls < MaxSaves
    /\ \E value \in ConfigValues :
          config_saves' =
             [config_saves EXCEPT
                 ![section] = [st |-> "read", value |-> value,
                               config |-> set_section(read_config(config_files),
                                                      section, value),
                               result |-> "none", calls |-> @.calls + 1]]
    /\ UNCHANGED <<fileFrame, local_files, local_writes, stream_copy,
                   config_files>>

\* lines 64-66: fs::write(&temp_file, &content)
SaveWriteTemp(section) ==
    /\ config_saves[section].st = "read"
    /\ config_files' = WithFile(config_files, ConfigTempName,
                                config_saves[section].config)
    /\ config_saves' = [config_saves EXCEPT ![section].st = "temp_written"]
    /\ UNCHANGED <<fileFrame, local_files, local_writes, stream_copy>>

\* lines 74-77 (the build for a system other than Windows):
\* fs::rename(&temp_file, &config_file)? and Ok(())
SaveRename(section) ==
    /\ config_saves[section].st = "temp_written"
    /\ IF ConfigTempName \in DOMAIN config_files
       THEN /\ config_files' = WithFile(WithoutFile(config_files,
                                                    ConfigTempName),
                                        CONFIG_FILE_NAME,
                                        config_files[ConfigTempName])
            /\ config_saves' = [config_saves EXCEPT
                                   ![section].st = "returned",
                                   ![section].result = "ok"]
       ELSE /\ config_files' = config_files
            /\ config_saves' = [config_saves EXCEPT
                                   ![section].st = "returned",
                                   ![section].result = "err"]
    /\ UNCHANGED <<fileFrame, local_files, local_writes, stream_copy>>

NextConfig ==
    \/ \E section \in SavedSections : SaveRead(section)
    \/ \E section \in SavedSections : SaveWriteTemp(section)
    \/ \E section \in SavedSections : SaveRename(section)

SpecConfig == InitJobs /\ [][NextConfig]_vars

\* C40: saves of different sections lose no update: when the last save of
\* the cache section and the last save of the transfer section have both
\* returned Ok, config.json holds both saved values and every other section
\* as it was
C40_NoLostSectionUpdate ==
    (\A k \in SavedSections : /\ config_saves[k].st = "returned"
                              /\ config_saves[k].result = "ok") =>
        /\ CONFIG_FILE_NAME \in DOMAIN config_files
        /\ config_files[CONFIG_FILE_NAME] =
              [k \in ConfigSections |->
                  IF k \in SavedSections THEN config_saves[k].value
                  ELSE ConfigDirAtRest[CONFIG_FILE_NAME][k]]

(***************************************************************************)
(* Reconciliation: compare_trees, the execution of its actions and a       *)
(* second compare_trees (SpecReconcile)                                    *)
(***************************************************************************)

\* the FileInfo values of a scan: FileScanner leaves directories out
\* (include_dirs is false) and a listing carries no checksum; the times of
\* the two sides differ by more than the tolerance or not at all
ScannedInfos == {FileInfo(s, t, FALSE, None) : s \in {1, 2}, t \in {10, 13}}

\* the modification time a storage gives a file the run writes: the time of
\* the write, later than every time scanned before
WriteTime == 20

\* execute_action on the two trees: a Copy writes the bytes of the one side
\* to the other side, which lists the file with their size and the time of
\* the write; a Delete removes the file; Skip and Conflict change nothing
apply_action(source, dest, a) ==
    CASE a.type = "Copy" /\ ~a.reverse ->
            [source |-> source,
             dest |-> WithFile(dest, a.dest_path,
                               FileInfo(source[a.source_path].size, WriteTime,
                                        FALSE, None))]
      [] a.type = "Copy" /\ a.reverse ->
            [source |-> WithFile(source, a.source_path,
                                 FileInfo(dest[a.dest_path].size, WriteTime,
                                          FALSE, None)),
             dest |-> dest]
      [] a.type = "Delete" /\ a.from_dest ->
            [source |-> source, dest |-> WithoutFile(dest, a.path)]
      [] a.type = "Delete" /\ ~a.from_dest ->
            [source |-> WithoutFile(source, a.path), dest |-> dest]
      [] OTHER -> [source |-> source, dest |-> dest]

\* every action of the list executed, in the list's order
RECURSIVE apply_actions(_, _, _)
apply_actions(source, dest, acts) ==
    IF acts = <<>> THEN [source |-> source, dest |-> dest]
    ELSE LET after == apply_action(source, dest, acts[1])
         IN  apply_actions(after.source, after.dest, Tail(acts))

HasConflict(acts) == \E i \in DOMAIN acts : acts[i].type = "Conflict"

InitReconcile ==
    /\ syncMode \in SyncModes
    /\ compare_config = FileComparatorDefault
    /\ source_tree \in PartialFns(Paths, ScannedInfos)
    /\ dest_tree \in PartialFns(Paths, ScannedInfos)
    /\ TreesWithin(source_tree, dest_tree)
    /\ compared = <<>>
    /\ actions = <<>>
    /\ pc = "compare"
    /\ source_store = <<>>
    /\ dest_store = <<>>
    /\ file_states = <<>>
    /\ file_states_start = <<>>
    /\ max_concurrent_transfers = 1
    /\ conflict_resolutions = <<>>
    /\ storage_type = [k \in Sides |-> "Local"]
    /\ remote_cache_ttl = 0
    /\ JobFresh
    /\ EngineFresh

\* the actions of a comparison without Conflict are all executed and the two
\* sides are scanned again
ApplyActions ==
    /\ pc = "compared"
    /\ ~HasConflict(compared)
    /\ LET after == apply_actions(source_tree, dest_tree, compared)
       IN  /\ source_tree' = after.source
           /\ dest_tree' = after.dest
    /\ pc' = "applied"
    /\ UNCHANGED <<syncMode, compare_config, compared, actions, cacheVars,
                   envVars, execVars, cancelled, report, history>>

\* compare_trees on the trees after the execution
CompareAgain ==
    /\ pc = "applied"
    /\ \E order \in IterationOrders(AllPaths(source_tree, dest_tree)) :
          actions' = compare_trees(compare_config, source_tree, dest_tree,
                                   syncMode, order)
    /\ pc' = "recompared"
    /\ UNCHANGED <<cmpVars, compared, cacheVars, envVars, execVars, cancelled,
                   report, history>>

NextReconcile ==
    \/ CompareTrees
    \/ ApplyActions
    \/ CompareAgain

SpecReconcile == InitReconcile /\ [][NextReconcile]_vars

\* C38: reconciliation is idempotent with the default comparator: after the
\* Copy and Delete actions of a comparison without Conflict were executed,
\* comparing the two trees again in the same mode yields Skip actions only
C38_ReconcileIdempotent ==
    pc = "recompared" => \A i \in DOMAIN actions : actions[i].type = "Skip"

\* a second comparison after a Copy and a Delete were executed
C38_Witness ==
    /\ pc = "recompared"
    /\ \E i \in DOMAIN compared : compared[i].type = "Copy"
    /\ \E i \in DOMAIN compared : compared[i].type = "Delete"
    /\ actions # <<>>

(***************************************************************************)
(* Termination of a run (FairProgress: SpecProgress with the fairness of   *)
(* the runtime's scheduler)                                                *)
(***************************************************************************)

\* the steps of run_sync and execute_sync_parallel themselves
EngineStep ==
    \/ ProgressBegin
    \/ EngineSend
    \/ ConnectChecked
    \/ SourceTree
    \/ CheckCancelled
    \/ DestCacheLoad
    \/ DestScan
    \/ CompareAndHashSkip
    \/ ExecuteWithTicker
    \/ SpawnCheck
    \/ SpawnTask
    \/ JoinAndAbort
    \/ ClearAndReturn

\* the tasks execute_sync_parallel can spawn: one per path at most
TaskIds == 1..Cardinality(StorePaths)

\* the steps of the task spawned for action i
TaskStep(i) ==
    /\ i \in DOMAIN tasks
    /\ \/ AttemptCancelled(i)
       \/ AttemptCopy(i)
       \/ AttemptStreamCopy(i)
       \/ AttemptDelete(i)
       \/ AttemptConflict(i)
       \/ Wake(i)

\* the steps of the progress ticker
TickerStep ==
    \/ TickerWake
    \/ TickerSend
    \/ TickerDropped

\* tokio polls every task that can go on: run_sync, each spawned action
\* task, the ticker and the consumer of the progress channel; every storage
\* operation returns (an attempt is one step). The caller's cancellation is
\* under no obligation to happen
FairProgress ==
    /\ SpecProgress
    /\ WF_vars(EngineStep)
    /\ \A i \in TaskIds : WF_vars(TaskStep(i))
    /\ WF_vars(TickerStep)
    /\ WF_vars(Receive)

\* run_sync has returned its report with nothing of the run left behind
RunEnded ==
    /\ pc = "done"
    /\ report # None
    /\ \A i \in DOMAIN tasks : tasks[i].st \in {"none", "done"}
    /\ report[1].reachedSyncing => permits = max_concurrent_transfers
    /\ progress_handle.st \in {"none", "ended"}

\* C39: every run terminates: under fair scheduling, with storage operations
\* that return and a consumer that keeps receiving, run_sync eventually
\* returns a report, every spawned task has finished, every permit is back
\* and the progress ticker has stopped
C39_RunTerminates == <>RunEnded

\* a run that executed a task and was followed by its ticker has ended
C39_Witness ==
    /\ RunEnded
    /\ report[1].reachedSyncing
    /\ \E i \in DOMAIN tasks : tasks[i].st = "done"
    /\ progress_handle.st = "ended"
    /\ progress_handle.ticks > 0

=============================================================================
